---------------------------- MODULE Spec2Model ----------------------------
(***************************************************************************)
(* LimitlessFlashBot off-chain executor: the risk manager, the arbitrage   *)
(* calculator, the signal processor and the orchestrator's scan loop.      *)
(*                                                                         *)
(* Amounts are ethers BigNumbers in the source (wei).  Here one unit is    *)
(* 1e14 wei, so parseEther('1') is Ether units.  Times are milliseconds,   *)
(* counted from the construction of the RiskManager (StartTime is the      *)
(* value Date.now() had then; lastTradeTime = 0 is the epoch).             *)
(* Floating point weights and scores are kept as integers in hundredths.   *)
(***************************************************************************)
EXTENDS Integers, Sequences, FiniteSets, TLC

VARIABLES
    now,              \* Date.now()
    clockSteps,       \* how many times the clock has advanced
    riskState,        \* RiskManager.riskState
    riskParams,       \* RiskManager.riskParams
    tradeHistorySize, \* RiskManager.tradeHistory.length
    lastCall,         \* the last call made on the RiskManager by its user and what it returned
    breaker,          \* history of the circuit breaker (see BreakerInit)
    scan,             \* the findArbitrageOpportunity call in progress
    isInitialized,    \* QuantumSignalProcessor.isInitialized
    signalCall,       \* the last processSignal call and the Signal it returned
    isRunning,        \* LimitlessFlashBotExecutor.isRunning
    timers,           \* live setInterval timers of each periodic activity
    cronTasks,        \* cron tasks scheduled so far
    stats,            \* LimitlessFlashBotExecutor.stats
    cycles,           \* the scan ticks' callbacks: where each one stands
    bundleStats,      \* FlashbotsExecutor.bundleStats
    bundleRun,        \* the executeBundle call in progress and what it did
    boot,             \* where initializeComponents stands, or that the process is gone
    report,           \* what the route of the last start or stop request answered
    flashBot,         \* storage of the LimitlessFlashBot contract
    balances,         \* what the contract holds: WETH and ether
    blockTimestamp,   \* block.timestamp of the block being built
    blocks,           \* how many blocks have been mined since deployment
    lastTx,           \* the last transaction sent to the contract and how it ended
    operation,        \* the last executeOperation call and what it did
    assessment,       \* the last risk score computed and what it was computed from
    priceHistory,     \* PriceMonitor.priceHistory: the price series of each token
    historyLog        \* how many entries each series was ever given, and the calls made

riskVars == <<now, clockSteps, riskState, riskParams, tradeHistorySize, lastCall, breaker>>
scanVars == <<scan>>
signalVars == <<isInitialized, signalCall>>
orchVars == <<isRunning, timers, cronTasks, stats, cycles>>
bundleVars == <<bundleStats, bundleRun>>
lifeVars == <<boot, report>>
chainVars == <<flashBot, balances, blockTimestamp, blocks, lastTx>>
opVars == <<operation>>
scoreVars == <<assessment>>
priceVars == <<priceHistory, historyLog>>
vars == <<riskVars, scanVars, signalVars, orchVars, bundleVars, lifeVars, chainVars, opVars,
          scoreVars, priceVars>>

----------------------------------------------------------------------------
(* Units and bounds *)

Ether == 10000

MaxClockSteps == 2
MaxTrades == 3
MaxCycles == 2
MaxStarts == 2
MaxBundles == 2
MaxBlocks == 2
MaxAppends == 3

Min(a, b) == IF a <= b THEN a ELSE b
Max(a, b) == IF a >= b THEN a ELSE b

\* A JavaScript null, and a string built from the given pieces.
Null == [tag |-> "null"]
Message(tokens) == [tag |-> "string", tokens |-> tokens]
Contains(m, piece) == m.tag = "string" /\ \E i \in DOMAIN m.tokens : m.tokens[i] = piece
Concat(prefix, m) == IF m.tag = "string" THEN Message(<<prefix>> \o m.tokens)
                     ELSE Message(<<prefix, "null">>)

oneDayMs == 24 * 60 * 60 * 1000

\* Date.now() when the RiskManager is constructed.
StartTime == 10 * 60 * 1000

\* The clock advances by half a cooldown, or by a day less half a cooldown.
ClockSteps == {30000, oneDayMs - 30000}

\* Opportunities as findArbitrageOpportunity builds them (the fields the
\* risk manager reads).
RiskOpportunities ==
    { [estimatedProfit |-> Ether \div 2, amount |-> Ether],
      [estimatedProfit |-> 0,           amount |-> 5 * Ether] }

----------------------------------------------------------------------------
(* RiskManager *)

DefaultRiskParams ==
    [ maxDailyLoss            |-> Ether,
      maxSingleTradeLoss      |-> Ether \div 10,
      minProfitThreshold      |-> Ether \div 1000,
      maxSlippage             |-> 5,
      maxGasPrice             |-> 100,
      maxLiquidityUtilization |-> 90,
      cooldownPeriod          |-> 60000,
      maxConsecutiveFailures  |-> 3,
      volatilityThreshold     |-> 10,
      liquidityThreshold      |-> 10 * Ether ]

InitialRiskState(t) ==
    [ dailyLoss           |-> 0,
      dailyProfit         |-> 0,
      consecutiveFailures |-> 0,
      lastTradeTime       |-> 0,
      totalTrades         |-> 0,
      successfulTrades    |-> 0,
      lastResetTime       |-> t,
      isPaused            |-> FALSE,
      pauseReason         |-> Null ]

\* Mutant: the window is taken to have elapsed only after more than 24h.
resetDailyCountersIfNeeded_StrictlyAfter(rs, t) ==
    IF t - rs.lastResetTime > oneDayMs
    THEN [rs EXCEPT !.dailyLoss = 0, !.dailyProfit = 0, !.lastResetTime = t]
    ELSE rs

\* Mutant: every call starts a new window.
resetDailyCountersIfNeeded_EveryCall(rs, t) ==
    [rs EXCEPT !.dailyLoss = 0, !.dailyProfit = 0, !.lastResetTime = t]

resetDailyCountersIfNeeded(rs, t) ==
    IF t - rs.lastResetTime >= oneDayMs
    THEN [rs EXCEPT !.dailyLoss = 0, !.dailyProfit = 0, !.lastResetTime = t]
    ELSE rs

checkProfitThreshold(p, opp) ==
    [ name   |-> "profit_threshold",
      passed |-> opp.estimatedProfit >= p.minProfitThreshold,
      weight |-> 20 ]

checkDailyLossLimit(rs, p, opp) ==
    LET estimatedLoss == (opp.amount * p.maxSlippage) \div 100
        potentialDailyLoss == rs.dailyLoss + estimatedLoss
    IN  [ name   |-> "daily_loss_limit",
          passed |-> potentialDailyLoss <= p.maxDailyLoss,
          weight |-> 30 ]

checkSingleTradeLossLimit(p, opp) ==
    LET estimatedLoss == (opp.amount * p.maxSlippage) \div 100
    IN  [ name   |-> "single_trade_loss_limit",
          passed |-> estimatedLoss <= p.maxSingleTradeLoss,
          weight |-> 20 ]

\* Slippage in 1/10000 of a percent: 0.1% * (1 + min(amountETH / 10, 5)).
estimateSlippage(opp) ==
    1000 + Min((opp.amount * 1000) \div (10 * Ether), 5000)

checkSlippage(p, opp) ==
    [ name   |-> "slippage_check",
      passed |-> estimateSlippage(opp) <= p.maxSlippage * 10000,
      weight |-> 15 ]

\* The current gas price is the mock value of 50 gwei.
checkGasPrice(p) ==
    [ name   |-> "gas_price_check",
      passed |-> 50 <= p.maxGasPrice,
      weight |-> 10 ]

\* The utilization is the mock value of 75%.
checkLiquidityUtilization(p) ==
    [ name   |-> "liquidity_utilization",
      passed |-> 75 <= p.maxLiquidityUtilization,
      weight |-> 10 ]

checkCooldownPeriod(rs, p, t) ==
    LET timeSinceLastTrade == t - rs.lastTradeTime
    IN  [ name   |-> "cooldown_period",
          passed |-> timeSinceLastTrade >= p.cooldownPeriod,
          weight |-> 5 ]

checkConsecutiveFailures(rs, p) ==
    [ name   |-> "consecutive_failures",
      passed |-> rs.consecutiveFailures < p.maxConsecutiveFailures,
      weight |-> 20 ]

\* The volatility is the mock value of 5%.
checkVolatility(p) ==
    [ name   |-> "volatility_check",
      passed |-> 5 <= p.volatilityThreshold,
      weight |-> 15 ]

\* The available liquidity is the mock value of 50 ETH.
checkLiquidityThreshold(p) ==
    [ name   |-> "liquidity_threshold",
      passed |-> 50 * Ether >= p.liquidityThreshold,
      weight |-> 10 ]

RECURSIVE SumWeights(_, _)
SumWeights(checks, failedOnly) ==
    IF checks = <<>> THEN 0
    ELSE LET c == Head(checks)
         IN  (IF failedOnly /\ c.passed THEN 0 ELSE c.weight)
             + SumWeights(Tail(checks), failedOnly)

\* Mutant: the weights of the checks that passed are summed.
calculateRiskScore_PassedWeights(checks) ==
    LET totalWeight   == SumWeights(checks, FALSE)
        weightedScore == totalWeight - SumWeights(checks, TRUE)
    IN  IF totalWeight > 0 THEN <<weightedScore, totalWeight>> ELSE <<1, 1>>

\* The score weightedScore / totalWeight as the pair <<numerator, denominator>>.
calculateRiskScore(checks) ==
    LET totalWeight   == SumWeights(checks, FALSE)
        weightedScore == SumWeights(checks, TRUE)
    IN  IF totalWeight > 0 THEN <<weightedScore, totalWeight>> ELSE <<1, 1>>

\* riskScore < 0.7
BelowApprovalThreshold(score) == score[1] * 10 < 7 * score[2]

getFailureReason(checks) ==
    LET failed == SelectSeq(checks, LAMBDA c : ~c.passed)
        RECURSIVE Primary(_, _)
        Primary(prev, rest) ==
            IF rest = <<>> THEN prev
            ELSE Primary(IF prev.weight > Head(rest).weight THEN prev ELSE Head(rest),
                         Tail(rest))
    IN  IF failed = <<>> THEN Message(<<"High risk score">>)
        ELSE Message(<<Primary(Head(failed), Tail(failed)).name, ": ", " exceeds ">>)

riskChecks(rs, p, opp, t) ==
    << checkProfitThreshold(p, opp),
       checkDailyLossLimit(rs, p, opp),
       checkSingleTradeLossLimit(p, opp),
       checkSlippage(p, opp),
       checkGasPrice(p),
       checkLiquidityUtilization(p),
       checkCooldownPeriod(rs, p, t),
       checkConsecutiveFailures(rs, p),
       checkVolatility(p),
       checkLiquidityThreshold(p) >>

\* A call made without an opportunity: reading its estimatedProfit throws.
NoOpp == [tag |-> "none"]

\* What the catch block of assessRisk returns.
RiskAssessmentError ==
    [ approved  |-> FALSE,
      riskScore |-> <<1, 1>>,
      reason    |-> Message(<<"Risk assessment error: ">>) ]

\* Mutant: the checks run on the counters as they were, the reset comes after.
assessRisk_ResetAfterChecks(rs, p, opp, t) ==
    LET rs1 == resetDailyCountersIfNeeded(rs, t)
    IN  IF rs.isPaused
        THEN [ state  |-> rs1,
               result |-> [ approved  |-> FALSE,
                            riskScore |-> <<1, 1>>,
                            reason    |-> Concat("System paused: ", rs.pauseReason) ] ]
        ELSE LET checks    == riskChecks(rs, p, opp, t)
                 riskScore == calculateRiskScore(checks)
                 approved  == (\A i \in DOMAIN checks : checks[i].passed)
                              /\ BelowApprovalThreshold(riskScore)
             IN  [ state  |-> rs1,
                   result |-> [ approved  |-> approved,
                                riskScore |-> riskScore,
                                reason    |-> IF approved
                                              THEN Message(<<"Risk assessment passed">>)
                                              ELSE getFailureReason(checks) ] ]

\* assessRisk returns the assessment; state is riskState as the call leaves it.
assessRisk(rs, p, opp, t) ==
    LET rs1 == resetDailyCountersIfNeeded(rs, t)
    IN  IF opp = NoOpp
        THEN [ state |-> rs, result |-> RiskAssessmentError ]
        ELSE IF rs1.isPaused
        THEN [ state  |-> rs1,
               result |-> [ approved  |-> FALSE,
                            riskScore |-> <<1, 1>>,
                            reason    |-> Concat("System paused: ", rs1.pauseReason) ] ]
        ELSE LET checks    == riskChecks(rs1, p, opp, t)
                 riskScore == calculateRiskScore(checks)
                 approved  == (\A i \in DOMAIN checks : checks[i].passed)
                              /\ BelowApprovalThreshold(riskScore)
             IN  [ state  |-> rs1,
                   result |-> [ approved  |-> approved,
                                riskScore |-> riskScore,
                                reason    |-> IF approved
                                              THEN Message(<<"Risk assessment passed">>)
                                              ELSE getFailureReason(checks) ] ]

\* Mutant: the reason is not recorded.
pauseSystem_NoReason(rs, reason) ==
    [rs EXCEPT !.isPaused = TRUE]

pauseSystem(rs, reason) ==
    [rs EXCEPT !.isPaused = TRUE, !.pauseReason = reason]

\* Mutant: resuming leaves the failure count as it was.
resumeSystem_KeepsFailures(rs) ==
    [rs EXCEPT !.isPaused = FALSE, !.pauseReason = Null]

resumeSystem(rs) ==
    [rs EXCEPT !.isPaused = FALSE, !.pauseReason = Null, !.consecutiveFailures = 0]

\* Mutant: the breaker trips one failure late.
recordTradeResult_StrictLimit(rs, p, opp, success, t) ==
    LET rs1 == [rs EXCEPT !.totalTrades = @ + 1, !.lastTradeTime = t]
    IN  IF success
        THEN [rs1 EXCEPT !.successfulTrades = @ + 1,
                         !.consecutiveFailures = 0,
                         !.dailyProfit = @ + opp.estimatedProfit]
        ELSE LET rs2 == [rs1 EXCEPT !.consecutiveFailures = @ + 1,
                                    !.dailyLoss = @ + opp.estimatedProfit]
             IN  IF rs2.consecutiveFailures > p.maxConsecutiveFailures
                 THEN pauseSystem(rs2, Message(<< "Too many ", "consecutive failures", ": ",
                                                  ToString(rs2.consecutiveFailures) >>))
                 ELSE rs2

\* Mutant: a recorded success resumes a paused system.
recordTradeResult_ResumeOnSuccess(rs, p, opp, success, t) ==
    LET rs1 == [rs EXCEPT !.totalTrades = @ + 1, !.lastTradeTime = t]
    IN  IF success
        THEN [rs1 EXCEPT !.successfulTrades = @ + 1,
                         !.consecutiveFailures = 0,
                         !.dailyProfit = @ + opp.estimatedProfit,
                         !.isPaused = FALSE,
                         !.pauseReason = Null]
        ELSE LET rs2 == [rs1 EXCEPT !.consecutiveFailures = @ + 1,
                                    !.dailyLoss = @ + opp.estimatedProfit]
             IN  IF rs2.consecutiveFailures >= p.maxConsecutiveFailures
                 THEN pauseSystem(rs2, Message(<< "Too many ", "consecutive failures", ": ",
                                                  ToString(rs2.consecutiveFailures) >>))
                 ELSE rs2

\* Mutant: a failed trade is also taken off the day's profit.
recordTradeResult_NetDailyProfit(rs, p, opp, success, t) ==
    LET rs1 == [rs EXCEPT !.totalTrades = @ + 1, !.lastTradeTime = t]
    IN  IF success
        THEN [rs1 EXCEPT !.successfulTrades = @ + 1,
                         !.consecutiveFailures = 0,
                         !.dailyProfit = @ + opp.estimatedProfit]
        ELSE LET rs2 == [rs1 EXCEPT !.consecutiveFailures = @ + 1,
                                    !.dailyLoss = @ + opp.estimatedProfit,
                                    !.dailyProfit = @ - opp.estimatedProfit]
             IN  IF rs2.consecutiveFailures >= p.maxConsecutiveFailures
                 THEN pauseSystem(rs2, Message(<< "Too many ", "consecutive failures", ": ",
                                                  ToString(rs2.consecutiveFailures) >>))
                 ELSE rs2

recordTradeResult(rs, p, opp, success, t) ==
    LET rs1 == [rs EXCEPT !.totalTrades = @ + 1, !.lastTradeTime = t]
    IN  IF success
        THEN [rs1 EXCEPT !.successfulTrades = @ + 1,
                         !.consecutiveFailures = 0,
                         !.dailyProfit = @ + opp.estimatedProfit]
        ELSE LET rs2 == [rs1 EXCEPT !.consecutiveFailures = @ + 1,
                                    !.dailyLoss = @ + opp.estimatedProfit]
             IN  IF rs2.consecutiveFailures >= p.maxConsecutiveFailures
                 THEN pauseSystem(rs2, Message(<< "Too many ", "consecutive failures", ": ",
                                                  ToString(rs2.consecutiveFailures) >>))
                 ELSE rs2

resetRiskState(t) == InitialRiskState(t)

updateRiskParams(p, newParams) ==
    [ k \in DOMAIN p |-> IF k \in DOMAIN newParams THEN newParams[k] ELSE p[k] ]

----------------------------------------------------------------------------
(* ArbitrageCalculator *)

\* The token pairs the orchestrator scans; the asset of a pair is its token0.
supportedPairs ==
    << [token0 |-> "WETH", token1 |-> "DAI"],
       [token0 |-> "WETH", token1 |-> "USDC"],
       [token0 |-> "WETH", token1 |-> "USDT"],
       [token0 |-> "DAI",  token1 |-> "USDC"],
       [token0 |-> "DAI",  token1 |-> "USDT"],
       [token0 |-> "USDC", token1 |-> "USDT"] >>

testAmounts == << 1 * Ether, 5 * Ether, 10 * Ether, 50 * Ether, 100 * Ether >>

\* parseEther('0.001'), the floor under which no opportunity is returned.
minProfitFloor == Ether \div 1000

\* A router's answer: an amount out, or Null when the call failed.
Amount(a) == [tag |-> "amount", value |-> a]

\* What the round trip of `amount` may bring back, less `amount`.
ProfitDeltas == {0 - 1, 0, minProfitFloor, minProfitFloor + 1, 2 * minProfitFloor}

\* The venues' answers to the calls calculateArbitrageProfit makes for one
\* amount: the four getPrice calls and the second hop of each route.
VenueAnswers(amount) ==
    LET price == {Null, Amount(amount)}
        final == {Null} \cup { Amount(amount + d) : d \in ProfitDeltas }
    IN  [ uniV2_0to1 : price, sushi_0to1 : price,
          uniV2_1to0 : price, sushi_1to0 : price,
          final1 : final, final2 : final ]

RECURSIVE BestOf(_, _)
BestOf(best, rest) ==
    IF rest = <<>> THEN best
    ELSE BestOf(IF Head(rest).profit > best.profit THEN Head(rest) ELSE best, Tail(rest))

\* Mutant: a route is taken once its first hop is priced, whether or not the
\* other venue quoted the way back.
calculateArbitrageProfit_ForwardQuoteOnly(token0, token1, amount, q) ==
    LET path1 == IF /\ q.uniV2_0to1 # Null
                    /\ q.final1 # Null /\ q.final1.value > amount
                 THEN << [ profit  |-> q.final1.value - amount,
                           amount  |-> amount,
                           router1 |-> "UNISWAP_V2",
                           router2 |-> "SUSHISWAP" ] >>
                 ELSE <<>>
        path2 == IF /\ q.sushi_0to1 # Null
                    /\ q.final2 # Null /\ q.final2.value > amount
                 THEN << [ profit  |-> q.final2.value - amount,
                           amount  |-> amount,
                           router1 |-> "SUSHISWAP",
                           router2 |-> "UNISWAP_V2" ] >>
                 ELSE <<>>
        opportunities == path1 \o path2
    IN  IF Len(opportunities) > 0
        THEN BestOf(Head(opportunities), Tail(opportunities))
        ELSE Null

calculateArbitrageProfit(token0, token1, amount, q) ==
    LET path1 == IF /\ q.uniV2_0to1 # Null /\ q.sushi_1to0 # Null
                    /\ q.final1 # Null /\ q.final1.value > amount
                 THEN << [ profit  |-> q.final1.value - amount,
                           amount  |-> amount,
                           router1 |-> "UNISWAP_V2",
                           router2 |-> "SUSHISWAP" ] >>
                 ELSE <<>>
        path2 == IF /\ q.sushi_0to1 # Null /\ q.uniV2_1to0 # Null
                    /\ q.final2 # Null /\ q.final2.value > amount
                 THEN << [ profit  |-> q.final2.value - amount,
                           amount  |-> amount,
                           router1 |-> "SUSHISWAP",
                           router2 |-> "UNISWAP_V2" ] >>
                 ELSE <<>>
        opportunities == path1 \o path2
    IN  IF Len(opportunities) > 0
        THEN BestOf(Head(opportunities), Tail(opportunities))
        ELSE Null

\* Mutant: the slippage tolerance is added to the estimate, not taken off it.
Opportunity_MinProfitAbove(pair, best, maxProfit, t) ==
    [ token0         |-> pair.token0,
      token1         |-> pair.token1,
      asset          |-> pair.token0,
      amount         |-> best.amount,
      estimatedProfit |-> maxProfit,
      profitability  |-> (maxProfit * 1000) \div Ether,
      router1        |-> best.router1,
      router2        |-> best.router2,
      minProfit      |-> (maxProfit * 105) \div 100,
      timestamp      |-> t ]

\* The opportunity findArbitrageOpportunity returns; profitability is the
\* profit in ETH, in thousandths.
Opportunity(pair, best, maxProfit, t) ==
    [ token0         |-> pair.token0,
      token1         |-> pair.token1,
      asset          |-> pair.token0,
      amount         |-> best.amount,
      estimatedProfit |-> maxProfit,
      profitability  |-> (maxProfit * 1000) \div Ether,
      router1        |-> best.router1,
      router2        |-> best.router2,
      minProfit      |-> (maxProfit * 95) \div 100,
      timestamp      |-> t ]

\* calculateGasCosts: the gas price (gwei, null when the provider call fails)
\* times 300000 gas; one gwei of gas price is 3 units of 1e14 wei.
GasPrices == { Null, Amount(50) }
calculateGasCosts(gasPrice) ==
    IF gasPrice = Null THEN Ether \div 100 ELSE gasPrice.value * 3

\* The final amount of the round trip behind a candidate.
FinalAmountOf(opportunity, q) ==
    IF opportunity.router1 = "UNISWAP_V2" THEN q.final1.value ELSE q.final2.value

\* findArbitrageOpportunity, one test amount per step.
\* opportunity: what calculateArbitrageProfit returned for the last amount.
\* finalAmount: what the round trip of the best candidate brought back.
\* gasPrice: what provider.getGasPrice() answers during this call.
\* quoteUnavailable: a quote asked for during this call came back null.
\* routeComplete: for some test amount, some route had all its quotes.
ScanIdle == [ pc |-> "idle", pair |-> 1, i |-> 0, maxProfit |-> 0,
              bestOpportunity |-> Null, opportunity |-> Null,
              result |-> Null,
              quoteUnavailable |-> FALSE, routeComplete |-> FALSE,
              finalAmount |-> 0, gasPrice |-> Null ]

\* The quotes calculateArbitrageProfit asks for: the four prices, and the
\* second hop of a route whose two prices are there.
Route1Priced(q) == q.uniV2_0to1 # Null /\ q.sushi_1to0 # Null
Route2Priced(q) == q.sushi_0to1 # Null /\ q.uniV2_1to0 # Null
QuoteUnavailable(q) ==
    \/ ~Route1Priced(q) \/ ~Route2Priced(q)
    \/ (Route1Priced(q) /\ q.final1 = Null)
    \/ (Route2Priced(q) /\ q.final2 = Null)
RouteComplete(q) ==
    \/ (Route1Priced(q) /\ q.final1 # Null)
    \/ (Route2Priced(q) /\ q.final2 # Null)

FindArbitrageOpportunityCall ==
    /\ scan.pc \in {"idle", "returned"}
    /\ \E gasPrice \in GasPrices :
         scan' = [ScanIdle EXCEPT
                  !.pc = "loop",
                  !.gasPrice = gasPrice,
                  !.pair = IF scan.pc = "returned" /\ scan.pair < Len(supportedPairs)
                           THEN scan.pair + 1
                           ELSE 1]
    /\ UNCHANGED <<riskVars, signalVars, orchVars, bundleVars, lifeVars, chainVars, opVars, scoreVars, priceVars>>

\* Mutant: a candidate that only equals the best profit replaces the best.
BeatsMaxProfit_OrEquals(opportunity, maxProfit) ==
    opportunity # Null /\ opportunity.profit >= maxProfit

\* The test a candidate passes to become the best opportunity.
BeatsMaxProfit(opportunity, maxProfit) ==
    opportunity # Null /\ opportunity.profit > maxProfit

FindTestAmount ==
    /\ scan.pc = "loop"
    /\ scan.i < Len(testAmounts)
    /\ LET amount == testAmounts[scan.i + 1]
            pair   == supportedPairs[scan.pair]
       IN  \E q \in VenueAnswers(amount) :
             LET opportunity == calculateArbitrageProfit(pair.token0, pair.token1, amount, q)
                 asked == [scan EXCEPT
                             !.i = @ + 1,
                             !.opportunity = opportunity,
                             !.quoteUnavailable = @ \/ QuoteUnavailable(q),
                             !.routeComplete = @ \/ RouteComplete(q)]
             IN  scan' = IF BeatsMaxProfit(opportunity, scan.maxProfit)
                         THEN [asked EXCEPT !.maxProfit = opportunity.profit,
                                            !.bestOpportunity = opportunity,
                                            !.finalAmount = FinalAmountOf(opportunity, q)]
                         ELSE asked
    /\ UNCHANGED <<riskVars, signalVars, orchVars, bundleVars, lifeVars, chainVars, opVars, scoreVars, priceVars>>

FindReturn ==
    /\ scan.pc = "loop"
    /\ scan.i = Len(testAmounts)
    /\ scan' = [scan EXCEPT
                  !.pc = "returned",
                  !.result = IF scan.bestOpportunity # Null /\ scan.maxProfit > minProfitFloor
                             THEN Opportunity(supportedPairs[scan.pair], scan.bestOpportunity,
                                              scan.maxProfit, now)
                             ELSE Null]
    /\ UNCHANGED <<riskVars, signalVars, orchVars, bundleVars, lifeVars, chainVars, opVars, scoreVars, priceVars>>

----------------------------------------------------------------------------
(* QuantumSignalProcessor.  Strengths and confidences are in thousandths. *)

getFallbackSignal(opp) ==
    LET profitScore     == Min(opp.profitability * 10, 1000)
        amountScore     == Min((opp.amount * 1000) \div (100 * Ether), 1000)
        signal_strength == (profitScore + amountScore) \div 2
        confidence      == Max(300, Min(800, signal_strength))
    IN  [ signal_strength |-> signal_strength,
          confidence      |-> confidence,
          source          |-> "fallback" ]

\* What runPythonScript resolves with: an error (exit code, unparsable
\* output, timeout), or the scores the script printed.
ScriptError == [tag |-> "error"]
ScriptScores(s, c) == [tag |-> "scores", signal_strength |-> s, confidence |-> c]

processSignal(initialized, opp, script) ==
    IF ~initialized THEN getFallbackSignal(opp)
    ELSE IF script.tag = "error" THEN getFallbackSignal(opp)
    ELSE [ signal_strength |-> script.signal_strength,
           confidence      |-> script.confidence,
           source          |-> "quantum" ]

validateSignal(signal) ==
    /\ signal.signal_strength >= 0 /\ signal.signal_strength <= 1000
    /\ signal.confidence >= 0 /\ signal.confidence <= 1000

----------------------------------------------------------------------------
(* Calls on the RiskManager: the harness of its public methods *)

maxHistorySize == 1000

Void == [tag |-> "void"]

\* sameInstant: the clock has not advanced since the call.  again: the call is
\* an assessRisk and the call before it was the same assessRisk (same
\* opportunity) at this instant.
Call(op, opp, result) ==
    [ op |-> op, opp |-> opp, result |-> result, sameInstant |-> TRUE,
      again |-> /\ op = "assessRisk"
                /\ lastCall.op = op /\ lastCall.opp = opp /\ lastCall.sameInstant ]

\* Reasons an operator gives to pauseSystem.
ManualReasons == { Message(<<"Manual pause">>) }

\* What updateRiskParams is called with.
ParamUpdates == { [maxConsecutiveFailures |-> 2], [maxConsecutiveFailures |-> 3] }

\* The circuit breaker's history, kept beside the code's own state:
\*   failStreak  failed recordTradeResult calls in a row, a success, a
\*               resumeSystem or a resetRiskState starting the count again;
\*   tripped     a recordTradeResult call brought failStreak to
\*               maxConsecutiveFailures and resumeSystem was not called since;
\*   resetSince  resetRiskState was called since the breaker tripped.
BreakerInit == [failStreak |-> 0, tripped |-> FALSE, resetSince |-> FALSE]

BreakerAfterRecord(b, p, success) ==
    IF success THEN [b EXCEPT !.failStreak = 0]
    ELSE IF b.failStreak + 1 >= p.maxConsecutiveFailures
         THEN [failStreak |-> b.failStreak + 1, tripped |-> TRUE, resetSince |-> FALSE]
         ELSE [b EXCEPT !.failStreak = @ + 1]

RiskManagerConstructed ==
    /\ now = StartTime
    /\ clockSteps = 0
    /\ riskState = InitialRiskState(StartTime)
    /\ riskParams = DefaultRiskParams
    /\ tradeHistorySize = 0
    /\ lastCall = [ op |-> "constructor", opp |-> NoOpp, result |-> Void,
                    sameInstant |-> TRUE, again |-> FALSE ]
    /\ breaker = BreakerInit

AdvanceTime ==
    /\ clockSteps < MaxClockSteps
    /\ \E d \in ClockSteps : now' = now + d
    /\ clockSteps' = clockSteps + 1
    /\ lastCall' = [lastCall EXCEPT !.sameInstant = FALSE]
    /\ UNCHANGED <<riskState, riskParams, tradeHistorySize, breaker>>
    /\ UNCHANGED <<scanVars, signalVars, orchVars, bundleVars, lifeVars, chainVars, opVars, scoreVars, priceVars>>

AssessRiskCall ==
    \E opp \in RiskOpportunities :
        LET r == assessRisk(riskState, riskParams, opp, now)
        IN  /\ riskState' = r.state
            /\ lastCall' = Call("assessRisk", opp, r.result)
            /\ UNCHANGED <<now, clockSteps, riskParams, tradeHistorySize, breaker>>
            /\ UNCHANGED <<scanVars, signalVars, orchVars, bundleVars, lifeVars, chainVars, opVars, scoreVars, priceVars>>

RecordTradeResultCall ==
    /\ riskState.totalTrades < MaxTrades
    /\ \E opp \in RiskOpportunities, success \in BOOLEAN :
        /\ riskState' = recordTradeResult(riskState, riskParams, opp, success, now)
        /\ tradeHistorySize' = Min(tradeHistorySize + 1, maxHistorySize)
        /\ lastCall' = Call("recordTradeResult", opp, [success |-> success])
        /\ breaker' = BreakerAfterRecord(breaker, riskParams, success)
        /\ UNCHANGED <<now, clockSteps, riskParams>>
        /\ UNCHANGED <<scanVars, signalVars, orchVars, bundleVars, lifeVars, chainVars, opVars, scoreVars, priceVars>>

PauseSystemCall ==
    \E reason \in ManualReasons :
        /\ riskState' = pauseSystem(riskState, reason)
        /\ lastCall' = Call("pauseSystem", NoOpp, Void)
        /\ UNCHANGED <<now, clockSteps, riskParams, tradeHistorySize, breaker>>
        /\ UNCHANGED <<scanVars, signalVars, orchVars, bundleVars, lifeVars, chainVars, opVars, scoreVars, priceVars>>

ResumeSystemCall ==
    /\ riskState' = resumeSystem(riskState)
    /\ lastCall' = Call("resumeSystem", NoOpp, Void)
    /\ breaker' = BreakerInit
    /\ UNCHANGED <<now, clockSteps, riskParams, tradeHistorySize>>
    /\ UNCHANGED <<scanVars, signalVars, orchVars, bundleVars, lifeVars, chainVars, opVars, scoreVars, priceVars>>

ResetRiskStateCall ==
    /\ riskState' = resetRiskState(now)
    /\ tradeHistorySize' = 0
    /\ lastCall' = Call("resetRiskState", NoOpp, Void)
    /\ breaker' = [breaker EXCEPT !.failStreak = 0, !.resetSince = breaker.tripped]
    /\ UNCHANGED <<now, clockSteps, riskParams>>
    /\ UNCHANGED <<scanVars, signalVars, orchVars, bundleVars, lifeVars, chainVars, opVars, scoreVars, priceVars>>

UpdateRiskParamsCall ==
    \E newParams \in ParamUpdates :
        /\ riskParams' = updateRiskParams(riskParams, newParams)
        /\ lastCall' = Call("updateRiskParams", NoOpp, [success |-> TRUE])
        /\ UNCHANGED <<now, clockSteps, riskState, tradeHistorySize, breaker>>
        /\ UNCHANGED <<scanVars, signalVars, orchVars, bundleVars, lifeVars, chainVars, opVars, scoreVars, priceVars>>

NextRisk ==
    \/ AdvanceTime
    \/ AssessRiskCall
    \/ RecordTradeResultCall
    \/ PauseSystemCall
    \/ ResumeSystemCall
    \/ ResetRiskStateCall
    \/ UpdateRiskParamsCall

\* The calls that leave riskParams as they are.
NextRiskFixedParams ==
    \/ AdvanceTime
    \/ AssessRiskCall
    \/ RecordTradeResultCall
    \/ PauseSystemCall
    \/ ResumeSystemCall
    \/ ResetRiskStateCall

----------------------------------------------------------------------------
(* Calls on the QuantumSignalProcessor *)

\* What the scoring script may print.  0.95 and 0.1 are the script's own
\* limits on confidence; the other values are what a script or a model file
\* replaced on disk may print.
ScriptStrengths == {0 - 200, 0, 500, 1000, 1500}
ScriptConfidences == {0 - 100, 100, 950, 1200}
ScriptResults ==
    {ScriptError} \cup { ScriptScores(s, c) : s \in ScriptStrengths, c \in ScriptConfidences }

\* Opportunities as the calculator returns them: a profit above the floor on
\* one of the test amounts.
SignalOpportunities ==
    { [ profitability |-> pr, amount |-> testAmounts[i] ] :
        pr \in {1, 50, 500}, i \in DOMAIN testAmounts }

NotRun == [tag |-> "not run"]
NoSignalCall == [tag |-> "none"]

SignalProcessorConstructed ==
    /\ isInitialized = FALSE
    /\ signalCall = NoSignalCall

\* initializeQuantumProcessor, started by the constructor, completes: with
\* the models loaded, or with an error caught.
InitializeQuantumProcessorDone ==
    /\ ~isInitialized
    /\ \E loaded \in BOOLEAN : isInitialized' = loaded
    /\ UNCHANGED signalCall
    /\ UNCHANGED <<riskVars, scanVars, orchVars, bundleVars, lifeVars, chainVars, opVars, scoreVars, priceVars>>

ProcessSignalCall ==
    /\ \E opp \in SignalOpportunities, script \in ScriptResults :
          signalCall' = [ tag      |-> "processSignal",
                          opp      |-> opp,
                          external |-> IF isInitialized THEN script ELSE NotRun,
                          result   |-> processSignal(isInitialized, opp, script) ]
    /\ UNCHANGED isInitialized
    /\ UNCHANGED <<riskVars, scanVars, orchVars, bundleVars, lifeVars, chainVars, opVars, scoreVars, priceVars>>

NextSignal ==
    \/ InitializeQuantumProcessorDone
    \/ ProcessSignalCall

NextScan ==
    \/ FindArbitrageOpportunityCall
    \/ FindTestAmount
    \/ FindReturn

----------------------------------------------------------------------------
(* LimitlessFlashBotExecutor: start, stop, the scan timer and its cycles *)

Cycles == 1 .. MaxCycles

CycleIdle == [ pc |-> "idle", pair |-> 1, opportunity |-> Null,
               quantumSignal |-> Null, riskAssessment |-> Null,
               availableLiquidity |-> 0, optimalAmount |-> 0 ]

\* The pairs on which the venues quote a profitable round trip, and the
\* opportunity findArbitrageOpportunity then returns (or null).
OppPairs == {1, 4}
FoundOpportunity(k) ==
    Opportunity(supportedPairs[k],
                [ profit |-> Ether \div 2, amount |-> testAmounts[1],
                  router1 |-> "UNISWAP_V2", router2 |-> "SUSHISWAP" ],
                Ether \div 2, now)
FindResults(k) == {Null} \cup (IF k \in OppPairs THEN {FoundOpportunity(k)} ELSE {})

\* What the scoring script prints during a scan.
ScanScriptResults == { ScriptError, ScriptScores(800, 700), ScriptScores(800, 950) }

\* contract.getAvailableLiquidity(asset): a balance, or Null when the call throws.
Liquidities == { Null, Amount(Ether), Amount(1000 * Ether) }

OrchestratorConstructed ==
    /\ isRunning = FALSE
    /\ timers = [ priceMonitor |-> 0, arbitrageScan |-> 0, healthCheck |-> 0 ]
    /\ cronTasks = 0
    /\ stats = [ totalExecutions |-> 0, successfulExecutions |-> 0,
                 totalProfit |-> 0, lastExecution |-> Null ]
    /\ cycles = [ c \in Cycles |-> CycleIdle ]

\* A continuation that runs before the event loop takes the next event: the
\* awaits inside assessRisk and the one on its result wait on no I/O.
MicrotaskPending == \E c \in Cycles : cycles[c].pc \in {"assess", "assessed"}

\* An execution is in flight from the call of executeArbitrage to its return.
InFlight(c) == cycles[c].pc \in {"liquidity", "bundle"}

\* Mutant: the scan of a tick ends with the pair it has just left.
NextPair_EndsScan(cy) ==
    [CycleIdle EXCEPT !.pc = "done", !.pair = cy.pair]

\* The for loop of scanForArbitrageOpportunities moves to the next pair.
NextPair(cy) ==
    IF cy.pair = Len(supportedPairs)
    THEN [CycleIdle EXCEPT !.pc = "done", !.pair = cy.pair]
    ELSE [CycleIdle EXCEPT !.pc = "find", !.pair = cy.pair + 1]

\* What the route of a start or stop request answered.
Report(op, status) == [ op |-> op, status |-> status ]

NoReport == Report("none", 0)

\* The process is alive: no unhandled rejection has ended it.
Alive == boot # "exited"

\* start() past its isRunning test: the three intervals and the cron tasks.
Started ==
    /\ isRunning' = TRUE
    /\ timers' = [ priceMonitor |-> 1, arbitrageScan |-> 1, healthCheck |-> 1 ]
    /\ cronTasks' = cronTasks + 3

\* stop() past its isRunning test: the three intervals are cleared.
Stopped ==
    /\ isRunning' = FALSE
    /\ timers' = [ priceMonitor |-> 0, arbitrageScan |-> 0, healthCheck |-> 0 ]
    /\ UNCHANGED cronTasks

\* start(), called by main (AUTO_START) or by any holder of the object: on a
\* running bot it logs a warning and returns.
start_NoRunningCheck ==
    /\ ~MicrotaskPending
    /\ Alive
    /\ cronTasks < 3 * MaxStarts
    /\ Started
    /\ UNCHANGED <<stats, cycles>>
    /\ UNCHANGED <<riskVars, scanVars, signalVars, bundleVars, lifeVars, chainVars, opVars, scoreVars, priceVars>>

start ==
    /\ ~MicrotaskPending
    /\ Alive
    /\ cronTasks < 3 * MaxStarts
    /\ IF isRunning
       THEN UNCHANGED <<isRunning, timers, cronTasks>>
       ELSE Started
    /\ UNCHANGED <<stats, cycles>>
    /\ UNCHANGED <<riskVars, scanVars, signalVars, bundleVars, lifeVars, chainVars, opVars, scoreVars, priceVars>>

\* stop(): on a stopped bot it logs a warning and returns.
stop ==
    /\ ~MicrotaskPending
    /\ Alive
    /\ IF ~isRunning
       THEN UNCHANGED <<isRunning, timers, cronTasks>>
       ELSE Stopped
    /\ UNCHANGED <<stats, cycles>>
    /\ UNCHANGED <<riskVars, scanVars, signalVars, bundleVars, lifeVars, chainVars, opVars, scoreVars, priceVars>>

\* POST /start: the route tests isRunning itself and answers 400 without
\* calling start() when the bot runs.
PostStart ==
    /\ ~MicrotaskPending
    /\ Alive
    /\ cronTasks < 3 * MaxStarts
    /\ IF ~isRunning
       THEN /\ Started
            /\ report' = Report("POST /start", 200)
       ELSE /\ UNCHANGED <<isRunning, timers, cronTasks>>
            /\ report' = Report("POST /start", 400)
    /\ UNCHANGED <<stats, cycles, boot>>
    /\ UNCHANGED <<riskVars, scanVars, signalVars, bundleVars, chainVars, opVars, scoreVars, priceVars>>

\* POST /stop.
PostStop ==
    /\ ~MicrotaskPending
    /\ Alive
    /\ IF isRunning
       THEN /\ Stopped
            /\ report' = Report("POST /stop", 200)
       ELSE /\ UNCHANGED <<isRunning, timers, cronTasks>>
            /\ report' = Report("POST /stop", 400)
    /\ UNCHANGED <<stats, cycles, boot>>
    /\ UNCHANGED <<riskVars, scanVars, signalVars, bundleVars, chainVars, opVars, scoreVars, priceVars>>

\* initializeComponents, which the constructor calls and does not await,
\* settles. Nothing handles its rejection: the runtime ends the process, or
\* (with a handler installed, as the monitoring library does) only logs it.
InitializeComponentsSettled ==
    /\ ~MicrotaskPending
    /\ boot = "initializing"
    /\ boot' \in {"ready", "failed", "exited"}
    /\ UNCHANGED report
    /\ UNCHANGED <<riskVars, scanVars, signalVars, orchVars, bundleVars, chainVars, opVars, scoreVars, priceVars>>

\* The 2 s interval fires, whether or not the scan of an earlier tick is over.
ScanTick(c) ==
    /\ ~MicrotaskPending
    /\ timers.arbitrageScan > 0
    /\ cycles[c].pc = "idle"
    /\ \A d \in Cycles : d < c => cycles[d].pc # "idle"
    /\ Alive
    /\ IF ~isRunning
       THEN UNCHANGED cycles
       ELSE IF boot # "ready"
       THEN \* no arbitrageCalculator yet: each pair's TypeError is caught
            cycles' = [cycles EXCEPT ![c] = [CycleIdle EXCEPT !.pc = "done", !.pair = 6]]
       ELSE cycles' = [cycles EXCEPT ![c] = [CycleIdle EXCEPT !.pc = "find"]]
    /\ UNCHANGED <<isRunning, timers, cronTasks, stats>>
    /\ UNCHANGED <<riskVars, scanVars, signalVars, bundleVars, lifeVars, chainVars, opVars, scoreVars, priceVars>>

\* findArbitrageOpportunity(pair) resolves.
FindResolved(c) ==
    /\ ~MicrotaskPending
    /\ cycles[c].pc = "find"
    /\ \E opportunity \in FindResults(cycles[c].pair) :
          cycles' = [cycles EXCEPT ![c] =
                        IF opportunity # Null /\ opportunity.profitability > 0
                        THEN [@ EXCEPT !.pc = "signal", !.opportunity = opportunity]
                        ELSE NextPair(@)]
    /\ UNCHANGED <<isRunning, timers, cronTasks, stats>>
    /\ UNCHANGED <<riskVars, scanVars, signalVars, bundleVars, lifeVars, chainVars, opVars, scoreVars, priceVars>>

\* processSignal(opportunity) resolves; the scan goes on to call assessRisk.
SignalResolved(c) ==
    /\ ~MicrotaskPending
    /\ cycles[c].pc = "signal"
    /\ \E script \in ScanScriptResults :
          cycles' = [cycles EXCEPT ![c] =
                        [@ EXCEPT !.pc = "assess",
                                  !.quantumSignal =
                                      processSignal(isInitialized, cycles[c].opportunity, script)]]
    /\ UNCHANGED <<isRunning, timers, cronTasks, stats>>
    /\ UNCHANGED <<riskVars, scanVars, signalVars, bundleVars, lifeVars, chainVars, opVars, scoreVars, priceVars>>

\* riskManager.assessRisk(opportunity), called by the scan; what it returned
\* is kept in the cycle (lastCall is the record of the calls made from
\* outside the scan).
ScanAssessRisk(c) ==
    /\ cycles[c].pc = "assess"
    /\ LET r == assessRisk(riskState, riskParams, cycles[c].opportunity, now)
       IN  /\ riskState' = r.state
           /\ cycles' = [cycles EXCEPT ![c] =
                            [@ EXCEPT !.pc = "assessed", !.riskAssessment = r.result]]
    /\ UNCHANGED <<now, clockSteps, riskParams, tradeHistorySize, lastCall, breaker>>
    /\ UNCHANGED <<isRunning, timers, cronTasks, stats>>
    /\ UNCHANGED <<scanVars, signalVars, bundleVars, lifeVars, chainVars, opVars, scoreVars, priceVars>>

\* Mutant: the scan calls executeArbitrage on the signal alone.
ExecutionDecision_SignalOnly(cy) ==
    cy.quantumSignal.confidence > 700

\* Mutant: a confidence equal to 0.7 is let through.
ExecutionDecision_AtFloor(cy) ==
    cy.riskAssessment.approved /\ cy.quantumSignal.confidence >= 700

ExecutionDecision(cy) ==
    cy.riskAssessment.approved /\ cy.quantumSignal.confidence > 700

\* The scan reads the assessment: it calls executeArbitrage, which runs up to
\* its first await (getAvailableLiquidity), or moves to the next pair.
ScanDecide(c) ==
    /\ cycles[c].pc = "assessed"
    /\ IF ExecutionDecision(cycles[c])
       THEN /\ stats' = [stats EXCEPT !.totalExecutions = @ + 1]
            /\ cycles' = [cycles EXCEPT ![c] =
                             [@ EXCEPT !.pc = "liquidity",
                                       !.quantumSignal = Null,
                                       !.riskAssessment = Null]]
       ELSE /\ cycles' = [cycles EXCEPT ![c] = NextPair(@)]
            /\ UNCHANGED stats
    /\ UNCHANGED <<isRunning, timers, cronTasks>>
    /\ UNCHANGED <<riskVars, scanVars, signalVars, bundleVars, lifeVars, chainVars, opVars, scoreVars, priceVars>>

\* Mutant: the whole of the available liquidity may be borrowed.
optimalAmount_WholeLiquidity(amount, availableLiquidity) ==
    IF amount > availableLiquidity THEN availableLiquidity ELSE amount

\* The amount executeArbitrage asks for: up to 90% of the available liquidity.
optimalAmount(amount, availableLiquidity) ==
    LET maxAmount == (availableLiquidity * 90) \div 100
    IN  IF amount > maxAmount THEN maxAmount ELSE amount

\* getAvailableLiquidity resolves or throws; executeArbitrage builds the
\* transaction and hands it to executeBundle, or catches and returns.
LiquidityResolved(c) ==
    /\ ~MicrotaskPending
    /\ cycles[c].pc = "liquidity"
    /\ \E availableLiquidity \in Liquidities :
          cycles' = [cycles EXCEPT ![c] =
                        IF availableLiquidity = Null
                        THEN NextPair(@)
                        ELSE [@ EXCEPT !.pc = "bundle",
                                       !.availableLiquidity = availableLiquidity.value,
                                       !.optimalAmount =
                                           optimalAmount(cycles[c].opportunity.amount,
                                                         availableLiquidity.value)]]
    /\ UNCHANGED <<isRunning, timers, cronTasks, stats>>
    /\ UNCHANGED <<riskVars, scanVars, signalVars, bundleVars, lifeVars, chainVars, opVars, scoreVars, priceVars>>

\* Mutant: the profit is added and the success is not counted.
executionSucceeded_ProfitOnly(st, opportunity, t) ==
    [st EXCEPT !.totalProfit = @ + opportunity.estimatedProfit,
               !.lastExecution = [tag |-> "date", at |-> t]]

\* The statistics after executeBundle answered success.
executionSucceeded(st, opportunity, t) ==
    [st EXCEPT !.successfulExecutions = @ + 1,
               !.totalProfit = @ + opportunity.estimatedProfit,
               !.lastExecution = [tag |-> "date", at |-> t]]

\* executeBundle resolves; executeArbitrage counts a success and returns.
BundleResolved(c) ==
    /\ ~MicrotaskPending
    /\ cycles[c].pc = "bundle"
    /\ \E success \in BOOLEAN :
          stats' = IF success
                   THEN executionSucceeded(stats, cycles[c].opportunity, now)
                   ELSE stats
    /\ cycles' = [cycles EXCEPT ![c] = NextPair(@)]
    /\ UNCHANGED <<isRunning, timers, cronTasks>>
    /\ UNCHANGED <<riskVars, scanVars, signalVars, bundleVars, lifeVars, chainVars, opVars, scoreVars, priceVars>>

\* An operator pauses or resumes the risk manager while the bot runs.
OperatorPause == ~MicrotaskPending /\ PauseSystemCall
OperatorResume == ~MicrotaskPending /\ ResumeSystemCall

NextOrch ==
    \/ start
    \/ stop
    \/ \E c \in Cycles : ScanTick(c)
    \/ \E c \in Cycles : FindResolved(c)
    \/ \E c \in Cycles : SignalResolved(c)
    \/ \E c \in Cycles : ScanAssessRisk(c)
    \/ \E c \in Cycles : ScanDecide(c)
    \/ \E c \in Cycles : LiquidityResolved(c)
    \/ \E c \in Cycles : BundleResolved(c)
    \/ InitializeQuantumProcessorDone
    \/ OperatorPause
    \/ OperatorResume

----------------------------------------------------------------------------
(* FlashbotsExecutor: executeBundle, one await per step *)

maxWaitBlocks == 3

\* How many transactions executeBundle is given (the executor gives one).
BundleSizes == 0 .. 2

NotIncluded == Message(<<"Bundle not included within wait period">>)
NoValidTransactions == Message(<<"No valid transactions in bundle">>)
SubmissionFailed == Message(<<"Bundle submission failed: ", "relay error">>)
ProviderError == Message(<<"provider error">>)
BlockTimeout == Message(<<"Timeout waiting for block">>)

\* What getBundleStats may answer for a block: simulated or not, mined or not.
BundleStatsAnswers == [ isSimulated : BOOLEAN, isMined : BOOLEAN ]

BundleRunIdle ==
    [ pc |-> "idle", transactions |-> 0, bundle |-> 0, i |-> 0,
      submittedAtCall |-> 0, sendBundleCalls |-> 0, blockWaits |-> 0, elapsed |-> 0,
      polls |-> <<>>, relayRejected |-> FALSE, result |-> Null ]

FlashbotsExecutorConstructed ==
    /\ bundleStats = [ submitted |-> 0, included |-> 0, failed |-> 0 ]
    /\ bundleRun = BundleRunIdle

\* The catch block of executeBundle.
BundleFailure(error) ==
    [ success |-> FALSE, error |-> error, bundleHash |-> Null, txHash |-> Null ]

ExecuteBundleThrew(error) ==
    /\ bundleStats' = [bundleStats EXCEPT !.failed = @ + 1]
    /\ bundleRun' = [bundleRun EXCEPT !.pc = "returned", !.result = BundleFailure(error)]

\* executeBundle(transactions) is called without a target block.
ExecuteBundleCall ==
    /\ bundleRun.pc \in {"idle", "returned"}
    /\ bundleStats.submitted + bundleStats.failed < MaxBundles
    /\ \E n \in BundleSizes :
          bundleRun' = [BundleRunIdle EXCEPT !.pc = "getBlockNumber",
                                             !.transactions = n,
                                             !.submittedAtCall = bundleStats.submitted]
    /\ UNCHANGED bundleStats
    /\ UNCHANGED <<riskVars, scanVars, signalVars, orchVars, lifeVars, chainVars, opVars, scoreVars, priceVars>>

\* provider.getBlockNumber() resolves or rejects.
BlockNumberResolved ==
    /\ bundleRun.pc = "getBlockNumber"
    /\ \/ /\ bundleRun' = [bundleRun EXCEPT !.pc = "prepare"]
          /\ UNCHANGED bundleStats
       \/ ExecuteBundleThrew(ProviderError)
    /\ UNCHANGED <<riskVars, scanVars, signalVars, orchVars, lifeVars, chainVars, opVars, scoreVars, priceVars>>

\* prepareBundleTransactions resolves: a transaction whose preparation threw
\* is left out of the bundle.
BundlePrepared ==
    /\ bundleRun.pc = "prepare"
    /\ \E prepared \in 0 .. bundleRun.transactions :
          IF prepared = 0
          THEN ExecuteBundleThrew(NoValidTransactions)
          ELSE /\ bundleRun' = [bundleRun EXCEPT !.pc = "submit", !.bundle = prepared]
               /\ UNCHANGED bundleStats
    /\ UNCHANGED <<riskVars, scanVars, signalVars, orchVars, lifeVars, chainVars, opVars, scoreVars, priceVars>>

\* Mutant: the bundle is counted as submitted before the response is read.
afterSubmit_CountFirst(bs, bundleResponse) ==
    IF bundleResponse.error # Null
    THEN [ stats |-> [bs EXCEPT !.submitted = @ + 1], threw |-> TRUE ]
    ELSE [ stats |-> [bs EXCEPT !.submitted = @ + 1], threw |-> FALSE ]

\* executeBundle reads the response of submitBundle.
afterSubmit(bs, bundleResponse) ==
    IF bundleResponse.error # Null
    THEN [ stats |-> bs, threw |-> TRUE ]
    ELSE [ stats |-> [bs EXCEPT !.submitted = @ + 1], threw |-> FALSE ]

\* submitBundle resolves: the relay took the bundle, or signing or sending
\* failed and submitBundle returned the error.
BundleSubmitted ==
    /\ bundleRun.pc = "submit"
    /\ \E bundleResponse \in { [bundleHash |-> "0xb", error |-> Null],
                               [bundleHash |-> Null, error |-> Message(<<"relay error">>)] } :
          LET after == afterSubmit(bundleStats, bundleResponse)
              sent  == [bundleRun EXCEPT !.sendBundleCalls = @ + 1,
                                         !.relayRejected = bundleResponse.error # Null]
          IN  IF after.threw
              THEN /\ bundleStats' = [after.stats EXCEPT !.failed = @ + 1]
                   /\ bundleRun' = [sent EXCEPT !.pc = "returned",
                                                !.result = BundleFailure(SubmissionFailed)]
              ELSE /\ bundleStats' = after.stats
                   /\ bundleRun' = [sent EXCEPT !.pc = "waitForBlock"]
    /\ UNCHANGED <<riskVars, scanVars, signalVars, orchVars, lifeVars, chainVars, opVars, scoreVars, priceVars>>

\* The catch block of waitForBundleInclusion.
InclusionFailure(error) ==
    [ success |-> FALSE, error |-> error, bundleHash |-> "0xb", txHash |-> Null ]

\* waitForBlock: its timeout and the delay before checkBlock runs again, in
\* seconds.
timeout == 30
pollInterval == 1

\* How long provider.getBlockNumber() takes to answer, in seconds: no time,
\* or longer than the timeout.
Latencies == {0, timeout + 1}

\* Mutant: the time waited is never found too long.
timedOut_Never(elapsed) == FALSE

\* Date.now() - startTime > timeout
timedOut(elapsed) == elapsed > timeout

\* checkBlock of waitForBlock(targetBlockNumber + i): getBlockNumber answers
\* or rejects after some time; the block is there and the wait resolves, or
\* it is not and the wait rejects on its timeout or checkBlock is scheduled
\* again.  elapsed is Date.now() - startTime, counted up to timeout + 1.
BlockWaited ==
    /\ bundleRun.pc = "waitForBlock"
    /\ \E answer \in {"arrived", "pending", "error"}, latency \in Latencies :
          LET elapsed == Min(bundleRun.elapsed + latency, timeout + 1)
              settled == [bundleRun EXCEPT !.blockWaits = @ + 1, !.elapsed = 0]
          IN  bundleRun' =
                IF answer = "arrived"
                THEN [settled EXCEPT !.pc = "getBundleStats"]
                ELSE IF answer = "error"
                THEN [settled EXCEPT !.pc = "returned",
                                     !.result = InclusionFailure(ProviderError)]
                ELSE IF timedOut(elapsed)
                THEN [settled EXCEPT !.pc = "returned",
                                     !.result = InclusionFailure(BlockTimeout)]
                ELSE [bundleRun EXCEPT !.pc = "setTimeout", !.elapsed = elapsed]
    /\ UNCHANGED bundleStats
    /\ UNCHANGED <<riskVars, scanVars, signalVars, orchVars, lifeVars, chainVars, opVars, scoreVars, priceVars>>

\* The timer set by checkBlock fires after pollInterval and checkBlock runs
\* again.
CheckBlockTimer ==
    /\ bundleRun.pc = "setTimeout"
    /\ bundleRun' = [bundleRun EXCEPT
                       !.pc = "waitForBlock",
                       !.elapsed = Min(@ + pollInterval, timeout + 1)]
    /\ UNCHANGED bundleStats
    /\ UNCHANGED <<riskVars, scanVars, signalVars, orchVars, lifeVars, chainVars, opVars, scoreVars, priceVars>>

\* Mutant: a simulated bundle is taken for an included one.
bundleIncluded_Simulated(answer) == answer.isSimulated

bundleIncluded(answer) == answer.isMined

\* getBundleStats(bundleHash, targetBlockNumber + i) resolves or rejects.
\* A poll keeps the block it asked about, counted from the target block.
BundleStatsResolved ==
    /\ bundleRun.pc = "getBundleStats"
    /\ \/ \E answer \in BundleStatsAnswers :
            LET poll   == [ block       |-> bundleRun.i,
                            isSimulated |-> answer.isSimulated,
                            isMined     |-> answer.isMined ]
                polled == [bundleRun EXCEPT !.polls = Append(@, poll)]
            IN  IF bundleIncluded(answer)
                THEN /\ bundleStats' = [bundleStats EXCEPT !.included = @ + 1]
                     /\ bundleRun' = [polled EXCEPT
                                        !.pc = "returned",
                                        !.result = [ success |-> TRUE, error |-> Null,
                                                     bundleHash |-> "0xb",
                                                     txHash |-> "0xt" ]]
                ELSE /\ UNCHANGED bundleStats
                     /\ bundleRun' = IF bundleRun.i + 1 < maxWaitBlocks
                                     THEN [polled EXCEPT !.pc = "waitForBlock", !.i = @ + 1]
                                     ELSE [polled EXCEPT !.pc = "returned", !.i = @ + 1,
                                                         !.result = InclusionFailure(NotIncluded)]
       \/ /\ UNCHANGED bundleStats
          /\ bundleRun' = [bundleRun EXCEPT !.pc = "returned",
                                            !.result = InclusionFailure(ProviderError)]
    /\ UNCHANGED <<riskVars, scanVars, signalVars, orchVars, lifeVars, chainVars, opVars, scoreVars, priceVars>>

NextBundle ==
    \/ ExecuteBundleCall
    \/ BlockNumberResolved
    \/ BundlePrepared
    \/ BundleSubmitted
    \/ BlockWaited
    \/ CheckBlockTimer
    \/ BundleStatsResolved

-----------------------------------------------------------------------------
(* LimitlessFlashBot, the settlement contract: one transaction per step *)

\* Who sends transactions: the deployer, the bot's key, anyone else.
Addresses == {"owner", "executor", "user"}

\* Who sends the administrative transactions of the model, and who calls
\* executeArbitrage in it.
AdminSenders == {"owner", "user"}

ExecutionSenders == {"executor", "user"}

\* Tokens: the four the constructor supports, and one it does not.
SupportedAtDeployment == {"WETH", "DAI", "USDC", "USDT"}

Tokens == SupportedAtDeployment \cup {"LINK"}

\* Seconds: the timestamp of the deployment block, and `1 days`.
DeploymentTime == 1000

OneDay == 86400

\* By how much block.timestamp moves between the blocks the model looks at.
BlockGaps == {1}

\* Gas prices of a transaction and values given to setMaxGasPrice, in gwei.
TxGasPrices == {50, 150}

MaxGasPriceSettings == {100}

\* Values given to setMaxDailyLoss.
MaxDailyLossSettings == {0}

\* Amounts asked of executeArbitrage, and what the pool holds of the asset.
LoanAmounts == {0, Ether, 100 * Ether}

PoolLiquidities == {100 * Ether}

\* How the flash loan ends once requested: executeOperation returns true, or
\* one of its requires (or a swap) reverts the whole transaction.
LoanOutcomes == {"repaid", "Insufficient profit"}

\* The storage after the constructor, deployed by "owner".
Deployed ==
    [ owner                |-> "owner",
      paused               |-> FALSE,
      authorizedExecutors  |-> {},
      supportedAssets      |-> SupportedAtDeployment,
      lastExecutionTime    |-> [ a \in Addresses |-> 0 ],
      mevProtectionEnabled |-> TRUE,
      maxGasPrice          |-> 100,
      maxDailyLoss         |-> Ether,
      dailyLoss            |-> 0,
      lastResetTime        |-> DeploymentTime ]

\* The arguments of executeArbitrage and tx.gasprice; NoArgs for the others.
Args(asset, amount, gasprice) ==
    [ asset |-> asset, amount |-> amount, gasprice |-> gasprice ]

NoArgs == Args("", 0, 0)

\* A transaction: the function, its sender, its arguments, how it ended, the
\* revert reason and whether POOL.flashLoanSimple was called in it.
Tx(fn, sender, args, status, reason, loanRequested) ==
    [ fn |-> fn, sender |-> sender, args |-> args, status |-> status,
      reason |-> reason, loanRequested |-> loanRequested ]

NoTx == Tx("none", "none", NoArgs, "none", "", FALSE)

\* What a call leaves: the storage, the contract's holdings, and how it ended.
\* A revert undoes every write of the transaction.
Success(st, bal) ==
    [ state |-> st, balances |-> bal, status |-> "success", reason |-> "",
      loanRequested |-> FALSE ]

Revert(st, bal, reason) ==
    [ state |-> st, balances |-> bal, status |-> "reverted", reason |-> reason,
      loanRequested |-> FALSE ]

LimitlessFlashBotDeployed ==
    /\ flashBot = Deployed
    /\ balances = [ WETH |-> 0, eth |-> 0 ]
    /\ blockTimestamp = DeploymentTime
    /\ blocks = 0
    /\ lastTx = NoTx

\* Mutant: the modifier lets every caller through.
onlyAuthorizedExecutor_Anyone(st, sender) ==
    TRUE

onlyAuthorizedExecutor(st, sender) ==
    sender \in st.authorizedExecutors \/ sender = st.owner

\* Mutant: the modifier lets every caller through.
onlyOwner_Anyone(st, sender) ==
    TRUE

onlyOwner(st, sender) ==
    sender = st.owner

\* The requires of the mevProtection modifier: "" when they pass.
mevProtection(st, sender, gasprice, timestamp) ==
    IF ~st.mevProtectionEnabled THEN ""
    ELSE IF ~(gasprice <= st.maxGasPrice) THEN "Gas price too high - MEV protection"
    ELSE IF ~(timestamp > st.lastExecutionTime[sender] + 1) THEN "Rate limit exceeded"
    ELSE ""

\* The circuitBreaker modifier up to its require: the daily reset.
circuitBreaker(st, timestamp) ==
    IF timestamp > st.lastResetTime + OneDay
    THEN [st EXCEPT !.dailyLoss = 0, !.lastResetTime = timestamp]
    ELSE st

\* Mutant: the amount is not tested.
executeArbitrageRequires_AnyAmount(st, asset, amount, availableLiquidity) ==
    IF asset \notin st.supportedAssets THEN "Asset not supported"
    ELSE IF ~(amount <= (availableLiquidity * 90) \div 100) THEN "Exceeds max liquidity"
    ELSE ""

\* The requires of the body of executeArbitrage: "" when they pass.
executeArbitrageRequires(st, asset, amount, availableLiquidity) ==
    IF asset \notin st.supportedAssets THEN "Asset not supported"
    ELSE IF ~(amount > 0) THEN "Invalid amount"
    ELSE IF ~(amount <= (availableLiquidity * 90) \div 100) THEN "Exceeds max liquidity"
    ELSE ""

\* executeArbitrage: its modifiers in the order written, then its body.
executeArbitrage(st, bal, timestamp, sender, gasprice, asset, amount, availableLiquidity, loan) ==
    IF ~onlyAuthorizedExecutor(st, sender) THEN Revert(st, bal, "Unauthorized executor")
    ELSE IF mevProtection(st, sender, gasprice, timestamp) # ""
    THEN Revert(st, bal, mevProtection(st, sender, gasprice, timestamp))
    ELSE LET st1 == [st EXCEPT !.lastExecutionTime[sender] = timestamp]
             st2 == circuitBreaker(st1, timestamp)
             failed == executeArbitrageRequires(st2, asset, amount, availableLiquidity)
         IN  IF ~(st2.dailyLoss < st2.maxDailyLoss)
             THEN Revert(st, bal, "Daily loss limit exceeded")
             ELSE IF st2.paused THEN Revert(st, bal, "Pausable: paused")
             ELSE IF failed # "" THEN Revert(st, bal, failed)
             ELSE IF loan # "repaid"
             THEN [ Revert(st, bal, loan) EXCEPT !.loanRequested = TRUE ]
             ELSE \* the debt is pulled and all the rest of the asset goes to
                  \* the profit wallet
                  [ Success(st2, IF asset = "WETH" THEN [bal EXCEPT !.WETH = 0] ELSE bal)
                      EXCEPT !.loanRequested = TRUE ]

\* A transaction is mined: its outcome becomes the state.
Mined(fn, sender, args, r) ==
    /\ flashBot' = r.state
    /\ balances' = r.balances
    /\ lastTx' = Tx(fn, sender, args, r.status, r.reason, r.loanRequested)
    /\ UNCHANGED <<blockTimestamp, blocks>>
    /\ UNCHANGED <<riskVars, scanVars, signalVars, orchVars, bundleVars, lifeVars, opVars, scoreVars, priceVars>>

\* A function that is `external onlyOwner`: st and bal are what its body leaves.
OwnerOnly(sender, st, bal) ==
    IF onlyOwner(flashBot, sender)
    THEN Success(st, bal)
    ELSE Revert(flashBot, balances, "Ownable: caller is not the owner")

ExecuteArbitrageTx ==
    \E sender \in ExecutionSenders, gasprice \in TxGasPrices, asset \in {"WETH", "LINK"},
       amount \in LoanAmounts, availableLiquidity \in PoolLiquidities,
       loan \in LoanOutcomes :
        LET r == executeArbitrage(flashBot, balances, blockTimestamp, sender, gasprice,
                                  asset, amount, availableLiquidity, loan)
        IN  Mined("executeArbitrage", sender, Args(asset, amount, gasprice), r)

addAuthorizedExecutor ==
    \E sender \in AdminSenders, executor \in {"executor"} :
        Mined("addAuthorizedExecutor", sender, NoArgs,
              OwnerOnly(sender, [flashBot EXCEPT !.authorizedExecutors = @ \cup {executor}],
                        balances))

removeAuthorizedExecutor ==
    \E sender \in AdminSenders, executor \in {"executor"} :
        Mined("removeAuthorizedExecutor", sender, NoArgs,
              OwnerOnly(sender, [flashBot EXCEPT !.authorizedExecutors = @ \ {executor}],
                        balances))

addSupportedAsset ==
    \E sender \in AdminSenders, asset \in {"LINK"} :
        Mined("addSupportedAsset", sender, NoArgs,
              OwnerOnly(sender, [flashBot EXCEPT !.supportedAssets = @ \cup {asset}],
                        balances))

removeSupportedAsset ==
    \E sender \in AdminSenders, asset \in {"LINK"} :
        Mined("removeSupportedAsset", sender, NoArgs,
              OwnerOnly(sender, [flashBot EXCEPT !.supportedAssets = @ \ {asset}],
                        balances))

setMEVProtection ==
    \E sender \in AdminSenders, enabled \in BOOLEAN :
        Mined("setMEVProtection", sender, NoArgs,
              OwnerOnly(sender, [flashBot EXCEPT !.mevProtectionEnabled = enabled],
                        balances))

setMaxGasPrice ==
    \E sender \in AdminSenders, _maxGasPrice \in MaxGasPriceSettings :
        Mined("setMaxGasPrice", sender, NoArgs,
              OwnerOnly(sender, [flashBot EXCEPT !.maxGasPrice = _maxGasPrice], balances))

setMaxDailyLoss ==
    \E sender \in AdminSenders, _maxDailyLoss \in MaxDailyLossSettings :
        Mined("setMaxDailyLoss", sender, NoArgs,
              OwnerOnly(sender, [flashBot EXCEPT !.maxDailyLoss = _maxDailyLoss], balances))

\* pause() and unpause(): onlyOwner, then the library's _pause and _unpause.
pause ==
    \E sender \in AdminSenders :
        Mined("pause", sender, NoArgs,
              IF onlyOwner(flashBot, sender) /\ flashBot.paused
              THEN Revert(flashBot, balances, "Pausable: paused")
              ELSE OwnerOnly(sender, [flashBot EXCEPT !.paused = TRUE], balances))

unpause ==
    \E sender \in AdminSenders :
        Mined("unpause", sender, NoArgs,
              IF onlyOwner(flashBot, sender) /\ ~flashBot.paused
              THEN Revert(flashBot, balances, "Pausable: not paused")
              ELSE OwnerOnly(sender, [flashBot EXCEPT !.paused = FALSE], balances))

emergencyWithdraw ==
    \E sender \in AdminSenders :
        Mined("emergencyWithdraw", sender, NoArgs,
              OwnerOnly(sender, flashBot, [balances EXCEPT !.WETH = 0]))

emergencyWithdrawETH ==
    \E sender \in AdminSenders :
        Mined("emergencyWithdrawETH", sender, NoArgs,
              OwnerOnly(sender, flashBot, [balances EXCEPT !.eth = 0]))

\* receive(): anyone sends ether to the contract.
receive ==
    /\ balances.eth = 0
    /\ \E sender \in Addresses :
        Mined("receive", sender, NoArgs, Success(flashBot, [balances EXCEPT !.eth = 1]))

\* Anyone transfers WETH to the contract (a call to the token, not to it).
TokenTransferIn ==
    /\ balances.WETH = 0
    /\ balances' = [balances EXCEPT !.WETH = 1]
    /\ UNCHANGED <<flashBot, blockTimestamp, blocks, lastTx>>
    /\ UNCHANGED <<riskVars, scanVars, signalVars, orchVars, bundleVars, lifeVars, opVars, scoreVars, priceVars>>

\* The next block, one second or more than a day later.
NextBlock ==
    /\ blocks < MaxBlocks
    /\ \E gap \in BlockGaps : blockTimestamp' = blockTimestamp + gap
    /\ blocks' = blocks + 1
    /\ UNCHANGED <<flashBot, balances, lastTx>>
    /\ UNCHANGED <<riskVars, scanVars, signalVars, orchVars, bundleVars, lifeVars, opVars, scoreVars, priceVars>>

NextContract ==
    \/ ExecuteArbitrageTx
    \/ addAuthorizedExecutor
    \/ removeAuthorizedExecutor
    \/ addSupportedAsset
    \/ removeSupportedAsset
    \/ setMEVProtection
    \/ setMaxGasPrice
    \/ setMaxDailyLoss
    \/ pause
    \/ unpause
    \/ emergencyWithdraw
    \/ emergencyWithdrawETH
    \/ receive
    \/ TokenTransferIn
    \/ NextBlock

-----------------------------------------------------------------------------
(* LimitlessFlashBot.executeOperation, the flash-loan callback *)

\* 1e15 wei, in units of 1e14 wei.
MIN_PROFIT_THRESHOLD == 10

\* Who calls executeOperation, and who the pool says initiated the loan.
OperationCallers == {"pool", "executor", "user"}

Initiators == {"flashBot", "user"}

\* The premium the pool asks, minProfit of the params, what the contract held
\* of the asset before the loan, and what the two swaps together changed in
\* its balance of the asset (Null: a swap reverted).
Premiums == {5, 50}

MinProfits == {0, 30}

HeldBefore == {0, 45}

SwapGains == {Null, Amount(0 - 100), Amount(0), Amount(9), Amount(10), Amount(40)}

\* _executeArbitrageLogic: the gain of the round trip, 0 when it lost.
executeArbitrageLogic(initialBalance, finalBalance) ==
    IF finalBalance > initialBalance THEN finalBalance - initialBalance ELSE 0

OperationReverted(reason) ==
    [ completed |-> FALSE, reason |-> reason, profit |-> 0,
      approvedToPool |-> 0, transfers |-> <<>>, balanceLeft |-> 0 ]

\* Mutant: the initiator is not tested.
executeOperation_AnyInitiator(caller, initiator, amount, premium, minProfit, held, gain) ==
    IF caller # "pool" THEN OperationReverted("Caller must be pool")
    ELSE IF gain = Null THEN OperationReverted("swap reverted")
    ELSE LET initialBalance == held + amount
             currentBalance == initialBalance + gain.value
             profit         == executeArbitrageLogic(initialBalance, currentBalance)
             totalDebt      == amount + premium
             netProfit      == currentBalance - totalDebt
         IN  IF ~(profit >= minProfit) THEN OperationReverted("Insufficient profit")
             ELSE IF ~(profit >= MIN_PROFIT_THRESHOLD)
             THEN OperationReverted("Below minimum profit threshold")
             ELSE IF ~(currentBalance >= totalDebt)
             THEN OperationReverted("Insufficient funds to repay loan")
             ELSE [ completed      |-> TRUE,
                    reason         |-> "",
                    profit         |-> profit,
                    approvedToPool |-> totalDebt,
                    transfers      |-> IF netProfit > 0
                                       THEN << [to |-> "profitWallet", amount |-> netProfit] >>
                                       ELSE <<>>,
                    balanceLeft    |-> totalDebt ]

\* executeOperation: the asset the contract holds is held + amount when the
\* pool calls it; balanceLeft is what it holds when it returns.
executeOperation(caller, initiator, amount, premium, minProfit, held, gain) ==
    IF caller # "pool" THEN OperationReverted("Caller must be pool")
    ELSE IF initiator # "flashBot" THEN OperationReverted("Invalid initiator")
    ELSE IF gain = Null THEN OperationReverted("swap reverted")
    ELSE LET initialBalance == held + amount
             currentBalance == initialBalance + gain.value
             profit         == executeArbitrageLogic(initialBalance, currentBalance)
             totalDebt      == amount + premium
             netProfit      == currentBalance - totalDebt
         IN  IF ~(profit >= minProfit) THEN OperationReverted("Insufficient profit")
             ELSE IF ~(profit >= MIN_PROFIT_THRESHOLD)
             THEN OperationReverted("Below minimum profit threshold")
             ELSE IF ~(currentBalance >= totalDebt)
             THEN OperationReverted("Insufficient funds to repay loan")
             ELSE [ completed      |-> TRUE,
                    reason         |-> "",
                    profit         |-> profit,
                    approvedToPool |-> totalDebt,
                    transfers      |-> IF netProfit > 0
                                       THEN << [to |-> "profitWallet", amount |-> netProfit] >>
                                       ELSE <<>>,
                    balanceLeft    |-> totalDebt ]

NoOperation ==
    [ caller |-> "none", initiator |-> "none", amount |-> 0, premium |-> 0,
      minProfit |-> 0, held |-> 0, gain |-> Null, result |-> OperationReverted("") ]

\* executeOperation is called: by the pool inside a flash loan (asked by the
\* contract or by someone else for it), or directly by anyone.
ExecuteOperationCall ==
    /\ \E caller \in OperationCallers, initiator \in Initiators, premium \in Premiums,
          minProfit \in MinProfits, held \in HeldBefore, gain \in SwapGains :
          operation' = [ caller |-> caller, initiator |-> initiator, amount |-> Ether,
                         premium |-> premium, minProfit |-> minProfit, held |-> held,
                         gain |-> gain,
                         result |-> executeOperation(caller, initiator, Ether, premium,
                                                     minProfit, held, gain) ]
    /\ UNCHANGED <<riskVars, scanVars, signalVars, orchVars, bundleVars, lifeVars, chainVars, scoreVars, priceVars>>

NextOperation == ExecuteOperationCall

----------------------------------------------------------------------------
(* The risk score: calculateRiskScore on every outcome of the ten checks,
   and assessRisk on a paused gate and on a call that throws *)

\* The ten checks of assessRisk with the outcomes `passed` gives them.
ChecksWith(passed) ==
    LET checks == riskChecks(InitialRiskState(StartTime), DefaultRiskParams,
                             [estimatedProfit |-> Ether \div 2, amount |-> Ether], StartTime)
    IN  [ i \in DOMAIN checks |-> [checks[i] EXCEPT !.passed = passed[i]] ]

\* The gates assessRisk is called on: a running one and a paused one.
Gates ==
    { InitialRiskState(StartTime),
      pauseSystem(InitialRiskState(StartTime), Message(<<"Manual pause">>)) }

\* What assessRisk is called with: an opportunity, or nothing.
AssessedOpportunities == RiskOpportunities \cup {NoOpp}

NoAssessment == [ op |-> "none" ]

CalculateRiskScoreCall ==
    /\ \E passed \in [1 .. 10 -> BOOLEAN] :
          LET checks == ChecksWith(passed)
          IN  assessment' = [ op        |-> "calculateRiskScore",
                              checks    |-> checks,
                              riskScore |-> calculateRiskScore(checks) ]
    /\ UNCHANGED <<riskVars, scanVars, signalVars, orchVars, bundleVars, lifeVars, chainVars, opVars, priceVars>>

AssessRiskOutcome ==
    /\ \E rs \in Gates, opp \in AssessedOpportunities :
          assessment' = [ op     |-> "assessRisk",
                          gate   |-> rs,
                          opp    |-> opp,
                          result |-> assessRisk(rs, DefaultRiskParams, opp, StartTime).result ]
    /\ UNCHANGED <<riskVars, scanVars, signalVars, orchVars, bundleVars, lifeVars, chainVars, opVars, priceVars>>

NextScore ==
    \/ CalculateRiskScoreCall
    \/ AssessRiskOutcome

----------------------------------------------------------------------------
(* PriceMonitor: the price series and addToHistory *)

\* The length a price series is cut back to.
maxPriceHistory == 1000

\* The tokens whose series are followed, and the prices appended.
PriceTokens == {"WETH", "DAI"}
Prices == {1, 2}

\* How far Date.now() has moved on since the call before, in milliseconds.
SinceLastCall == {0, 1}

\* An entry of a series; serial is not in the code: it numbers the entries
\* of a series in the order they were appended.
HistoryEntry(price, t, serial) == [ price |-> price, timestamp |-> t, serial |-> serial ]

\* Mutant: the entries past the limit are cut at the newer end.
addToHistory_CutsNewest(history, price, t, serial) ==
    LET pushed == Append(history, HistoryEntry(price, t, serial))
    IN  IF Len(pushed) > maxPriceHistory
        THEN SubSeq(pushed, 1, maxPriceHistory)
        ELSE pushed

\* addToHistory: push, then splice(0, length - 1000) when longer than 1000.
addToHistory(history, price, t, serial) ==
    LET pushed == Append(history, HistoryEntry(price, t, serial))
    IN  IF Len(pushed) > maxPriceHistory
        THEN SubSeq(pushed, Len(pushed) - maxPriceHistory + 1, Len(pushed))
        ELSE pushed

\* A series of n entries appended one millisecond apart, the last at StartTime.
SeriesOf(n) == [ i \in 1 .. n |-> HistoryEntry(1, StartTime - (n - i), i) ]

\* The lengths of the WETH series when the calls followed begin: empty as
\* initialize leaves it, one short of the limit, and at the limit.
SeriesLengths == {0, maxPriceHistory - 1, maxPriceHistory}

PriceMonitorInitialized(n) ==
    /\ priceHistory = [ token \in PriceTokens |-> IF token = "WETH" THEN SeriesOf(n) ELSE <<>> ]
    /\ historyLog = [ appended |-> [ token \in PriceTokens |-> IF token = "WETH" THEN n ELSE 0 ],
                      calls    |-> 0,
                      last     |-> [ token |-> "none" ] ]

AddToHistoryCall ==
    /\ historyLog.calls < MaxAppends
    /\ \E tokenSymbol \in PriceTokens, price \in Prices, d \in SinceLastCall :
          LET serial == historyLog.appended[tokenSymbol] + 1
          IN  /\ now' = now + d
              /\ priceHistory' = [priceHistory EXCEPT
                                    ![tokenSymbol] = addToHistory(@, price, now', serial)]
              /\ historyLog' = [ appended |-> [historyLog.appended EXCEPT ![tokenSymbol] = serial],
                                 calls    |-> historyLog.calls + 1,
                                 last     |-> [ token |-> tokenSymbol, price |-> price ] ]
    /\ UNCHANGED <<clockSteps, riskState, riskParams, tradeHistorySize, lastCall, breaker>>
    /\ UNCHANGED <<scanVars, signalVars, orchVars, bundleVars, lifeVars, chainVars, opVars, scoreVars>>

NextHistory == AddToHistoryCall

----------------------------------------------------------------------------
(* Specifications *)

\* Every object but the PriceMonitor as its constructor leaves it.
ComponentsConstructed ==
    /\ RiskManagerConstructed
    /\ scan = ScanIdle
    /\ SignalProcessorConstructed
    /\ OrchestratorConstructed
    /\ FlashbotsExecutorConstructed
    /\ report = NoReport
    /\ LimitlessFlashBotDeployed
    /\ operation = NoOperation
    /\ assessment = NoAssessment

\* Every object as its constructor, and initialize for the PriceMonitor,
\* leave it.
Constructed ==
    /\ ComponentsConstructed
    /\ PriceMonitorInitialized(0)

\* The price series as they may stand when addToHistory is called.
InitHistory ==
    /\ ComponentsConstructed
    /\ boot = "ready"
    /\ \E n \in SeriesLengths : PriceMonitorInitialized(n)

\* The components are there: initializeComponents has resolved.
Init ==
    /\ Constructed
    /\ boot = "ready"

\* The process right after `new LimitlessFlashBotExecutor()`.
InitBoot ==
    /\ Constructed
    /\ boot = "initializing"

\* Starting and stopping, from the construction on.
NextLife ==
    \/ InitializeComponentsSettled
    \/ start
    \/ stop
    \/ PostStart
    \/ PostStop
    \/ \E c \in Cycles : ScanTick(c)

Next == NextRisk \/ NextScan \/ NextSignal \/ NextOrch \/ NextBundle \/ NextLife \/ NextContract \/ NextOperation \/ NextScore \/ NextHistory

Spec == Init /\ [][Next]_vars

\* The RiskManager alone, under any sequence of calls of its methods.
SpecRisk == Init /\ [][NextRisk]_vars

\* The RiskManager with the risk parameters its constructor sets, never updated.
SpecRiskFixedParams == Init /\ [][NextRiskFixedParams]_vars

\* findArbitrageOpportunity alone, under any answers of the venues.
SpecScan == Init /\ [][NextScan]_vars

\* processSignal alone, under any output of the scoring script.
SpecSignal == Init /\ [][NextSignal]_vars

\* The executor: its scan cycles, with an operator at the risk manager.
SpecOrch == Init /\ [][NextOrch]_vars

\* executeBundle alone, under any answers of the provider and the relay.
SpecBundle == Init /\ [][NextBundle]_vars

\* executeBundle with every promise it awaits settling and every timer it
\* sets firing; whether the block arrives and what the relay answers is left
\* open.
SpecBundleFair ==
    /\ SpecBundle
    /\ WF_vars(BlockNumberResolved)
    /\ WF_vars(BundlePrepared)
    /\ WF_vars(BundleSubmitted)
    /\ WF_vars(BlockWaited)
    /\ WF_vars(CheckBlockTimer)
    /\ WF_vars(BundleStatsResolved)

\* The contract, under any transactions of the owner, the executor and others.
SpecContract == Init /\ [][NextContract]_vars

\* executeOperation alone, under any caller, initiator and swap result.
SpecOperation == Init /\ [][NextOperation]_vars
SpecScore == Init /\ [][NextScore]_vars

\* addToHistory, called on series that are empty, nearly full and full.
SpecHistory == InitHistory /\ [][NextHistory]_vars

\* The process from its construction: initialization, start and stop.
SpecLife == InitBoot /\ [][NextLife]_vars

----------------------------------------------------------------------------
(* The risk manager's claims, checked under SpecRisk *)

\* C4 as stated: once maxConsecutiveFailures failed recordTradeResult calls in
\* a row have tripped the breaker, the system is paused and every assessRisk
\* call returns approved = false until resumeSystem is called.
C4_PausedUntilResume ==
    breaker.tripped =>
        /\ riskState.isPaused
        /\ (lastCall.op = "assessRisk" => ~lastCall.result.approved)

\* C4 amended: once maxConsecutiveFailures failed recordTradeResult calls in a
\* row (no success, resumeSystem or resetRiskState in between) have tripped
\* the breaker, the system is paused and every assessRisk call returns
\* approved = false until resumeSystem or resetRiskState is called.
C4_PausedUntilResumeOrReset ==
    (breaker.tripped /\ ~breaker.resetSince) =>
        /\ riskState.isPaused
        /\ (lastCall.op = "assessRisk" => ~lastCall.result.approved)

\* Three failures in a row tripped the breaker and an assessment made
\* afterwards was refused.
C4_Witness ==
    /\ breaker.tripped /\ ~breaker.resetSince
    /\ breaker.failStreak = 3
    /\ riskParams.maxConsecutiveFailures = 3
    /\ lastCall.op = "assessRisk"
    /\ ~lastCall.result.approved

\* C5 as stated: only resumeSystem takes isPaused from true to false.
C5_OnlyResumeUnpauses ==
    [][ (riskState.isPaused /\ ~riskState'.isPaused)
            => lastCall'.op = "resumeSystem" ]_vars

\* C5 amended: only resumeSystem and the forced resetRiskState take isPaused
\* from true to false; assessRisk, recordTradeResult (a recorded success
\* included), the daily reset and updateRiskParams never do.
C5_OnlyResumeOrResetUnpauses ==
    [][ (riskState.isPaused /\ ~riskState'.isPaused)
            => lastCall'.op \in {"resumeSystem", "resetRiskState"} ]_vars

\* A success was recorded while the system was paused, and it is still paused.
C5_Witness ==
    /\ riskState.isPaused
    /\ lastCall.op = "recordTradeResult"
    /\ lastCall.result.success

\* C6: a paused system has a recorded reason, and the reason recorded by the
\* recordTradeResult call that trips the breaker contains "consecutive failures".
C6_PauseHasReason ==
    /\ riskState.isPaused => riskState.pauseReason # Null
    /\ ( /\ lastCall.op = "recordTradeResult"
         /\ ~lastCall.result.success
         /\ breaker.failStreak >= riskParams.maxConsecutiveFailures )
       => ( /\ riskState.isPaused
            /\ Contains(riskState.pauseReason, "consecutive failures") )

\* The third failure in a row has just paused the system.
C6_Witness ==
    /\ lastCall.op = "recordTradeResult"
    /\ breaker.failStreak = 3
    /\ riskParams.maxConsecutiveFailures = 3
    /\ riskState.isPaused
    /\ Contains(riskState.pauseReason, "consecutive failures")

SameDecision(r1, r2) == r1.approved = r2.approved /\ r1.riskScore = r2.riskScore

\* C9 as stated: two assessRisk calls for the same opportunity with no
\* recordTradeResult, pauseSystem or resumeSystem (nor any other call) between
\* them return the same decision.
C9_SameDecisionWithoutOutcome ==
    [][ ( /\ lastCall.op = "assessRisk"
          /\ lastCall'.op = "assessRisk"
          /\ lastCall'.opp = lastCall.opp )
            => SameDecision(lastCall.result, lastCall'.result) ]_vars

\* C9 amended: two assessRisk calls for the same opportunity at the same time
\* (Date.now() unchanged) with no other call between them return the same
\* decision: the first call does not change what the second returns.
C9_SameDecisionAtSameInstant ==
    [][ ( /\ lastCall.op = "assessRisk"
          /\ lastCall.sameInstant
          /\ now' = now
          /\ lastCall'.op = "assessRisk"
          /\ lastCall'.opp = lastCall.opp )
            => SameDecision(lastCall.result, lastCall'.result) ]_vars

\* The same opportunity was assessed twice at one instant, the first of the two
\* calls having reset the daily counters.
C9_Witness ==
    /\ lastCall.op = "assessRisk"
    /\ lastCall.again
    /\ riskState.lastResetTime = now
    /\ now > StartTime
    /\ riskState.totalTrades > 0

DailyCountersZeroed ==
    /\ riskState.dailyLoss > 0 \/ riskState.dailyProfit > 0
    /\ riskState'.dailyLoss = 0 /\ riskState'.dailyProfit = 0

AssessRiskStep == lastCall'.op = "assessRisk" /\ now' = now

WindowElapsed == now - riskState.lastResetTime >= oneDayMs

\* C10 as stated: no call zeroes dailyLoss and dailyProfit before the 24h
\* window has elapsed, and an assessRisk call made once it has elapsed leaves
\* both at zero and sets lastResetTime to now.
C10_ResetExactlyAtWindow ==
    [][ /\ ~(~WindowElapsed /\ DailyCountersZeroed)
        /\ (WindowElapsed /\ AssessRiskStep) =>
               /\ riskState'.dailyLoss = 0
               /\ riskState'.dailyProfit = 0
               /\ riskState'.lastResetTime = now ]_vars

\* C10 amended: before the 24h window has elapsed only the forced
\* resetRiskState zeroes dailyLoss and dailyProfit, and an assessRisk call made
\* once it has elapsed leaves both at zero and sets lastResetTime to now.
C10_ResetAtWindowOrForced ==
    [][ /\ (~WindowElapsed /\ DailyCountersZeroed) => lastCall'.op = "resetRiskState"
        /\ (WindowElapsed /\ AssessRiskStep) =>
               /\ riskState'.dailyLoss = 0
               /\ riskState'.dailyProfit = 0
               /\ riskState'.lastResetTime = now ]_vars

\* An assessRisk call made exactly 24h after construction has reset the
\* counters of a window in which trades were recorded.
C10_Witness ==
    /\ lastCall.op = "assessRisk"
    /\ now = StartTime + oneDayMs
    /\ riskState.lastResetTime = now
    /\ riskState.totalTrades > 0
    /\ riskState.dailyLoss = 0 /\ riskState.dailyProfit = 0

----------------------------------------------------------------------------
(* The executor's claims, checked under SpecOrch *)

Assets == { supportedPairs[k].token0 : k \in DOMAIN supportedPairs }

ExecutionsInFlight(asset) ==
    { c \in Cycles : InFlight(c) /\ cycles[c].opportunity.asset = asset }

\* C1 as stated: in every reachable state, overlapping scan cycles included,
\* at most one execution is in flight for any one asset.
C1_OneExecutionPerAsset ==
    \A asset \in Assets : Cardinality(ExecutionsInFlight(asset)) <= 1

\* C2: no execution is started (executeArbitrage is not called, so
\* totalExecutions does not grow) in a state where riskState.isPaused is
\* true, however the scan cycles interleave with pauseSystem and resumeSystem.
C2_NoExecutionWhilePaused ==
    [][stats'.totalExecutions > stats.totalExecutions
          => ~riskState.isPaused /\ ~riskState'.isPaused]_vars

\* After an earlier execution, an operator paused the risk manager; a scan
\* then had an opportunity scored above the confidence floor and refused.
C2_Witness ==
    /\ riskState.isPaused
    /\ stats.totalExecutions > 0
    /\ \E c \in Cycles :
          /\ cycles[c].pc = "assessed"
          /\ cycles[c].quantumSignal.confidence > 700
          /\ ~cycles[c].riskAssessment.approved

\* C3 as stated: every execution attempt is fed back to the risk manager
\* through recordTradeResult exactly once, so riskState.totalTrades equals the
\* number of completed execution attempts.
C3_EveryAttemptRecorded ==
    riskState.totalTrades =
        stats.totalExecutions - Cardinality({ c \in Cycles : InFlight(c) })

----------------------------------------------------------------------------
(* The calculator's claim, checked under SpecScan *)

\* C7: every opportunity findArbitrageOpportunity returns has
\* minProfit <= estimatedProfit, and an estimatedProfit that is strictly
\* positive and above the minimum-profit floor.
C7_ReturnedOpportunityProfitable ==
    (scan.pc = "returned" /\ scan.result # Null) =>
        /\ scan.result.minProfit <= scan.result.estimatedProfit
        /\ scan.result.estimatedProfit > 0
        /\ scan.result.estimatedProfit > minProfitFloor

\* An opportunity was returned whose profit is the least above the floor and
\* whose amount is the first test amount.
C7_Witness ==
    /\ scan.pc = "returned"
    /\ scan.result # Null
    /\ scan.result.estimatedProfit = minProfitFloor + 1
    /\ scan.result.minProfit < scan.result.estimatedProfit
    /\ scan.result.amount = testAmounts[1]

----------------------------------------------------------------------------
(* The signal processor's claim, checked under SpecSignal *)

\* C8 as stated: processSignal never returns a signal whose strength or
\* confidence is outside [0,1]; when the scoring script returns such a value,
\* the signal returned is the fallback signal.
C8_SignalInRange ==
    signalCall.tag = "processSignal" =>
        /\ validateSignal(signalCall.result)
        /\ (signalCall.external.tag = "scores" /\ ~validateSignal(signalCall.external))
              => signalCall.result.source = "fallback"
----------------------------------------------------------------------------
(* The Flashbots executor's claims, checked under SpecBundle *)

\* The relay answered every one of the maxWaitBlocks polls, and none of the
\* answers reported the bundle mined.
NeverReportedIncluded ==
    /\ Len(bundleRun.polls) = maxWaitBlocks
    /\ \A k \in DOMAIN bundleRun.polls : ~bundleRun.polls[k].isMined

\* C11: if the relay reports the bundle as not included for each of the
\* maxWaitBlocks (3) blocks from the target block on, executeBundle returns
\* success = false with the not-included reason, and the bundle was sent to
\* the relay once only.
C11_NotIncludedFailsWithoutRetry ==
    (bundleRun.pc = "returned" /\ NeverReportedIncluded) =>
        /\ bundleRun.result.success = FALSE
        /\ bundleRun.result.error = NotIncluded
        /\ bundleRun.sendBundleCalls = 1
        /\ bundleRun.blockWaits = maxWaitBlocks

\* executeBundle returned after three polls that all found the bundle
\* simulated but not mined.
C11_Witness ==
    /\ bundleRun.pc = "returned"
    /\ NeverReportedIncluded
    /\ \A k \in DOMAIN bundleRun.polls : bundleRun.polls[k].isSimulated
    /\ bundleRun.result.error = NotIncluded

\* Preparation left no transaction in the bundle, or the relay rejected it.
PreparationOrSubmissionFailed ==
    \/ bundleRun.result.error = NoValidTransactions
    \/ bundleRun.relayRejected

\* C12: when preparation leaves no valid transaction or the submission is
\* rejected, executeBundle returns success = false at once: no block wait,
\* no inclusion poll, and the bundle is not counted as submitted.
C12_SubmissionFailureReturnsAtOnce ==
    (bundleRun.pc = "returned" /\ PreparationOrSubmissionFailed) =>
        /\ bundleRun.result.success = FALSE
        /\ bundleRun.blockWaits = 0
        /\ bundleRun.polls = <<>>
        /\ bundleStats.submitted = bundleRun.submittedAtCall

\* After a bundle that was submitted, a second one was rejected by the relay.
C12_Witness ==
    /\ bundleRun.pc = "returned"
    /\ bundleRun.relayRejected
    /\ bundleRun.submittedAtCall = 1
    /\ bundleStats.failed = 1
----------------------------------------------------------------------------
(* The scan's claims about quotes and profit, checked under SpecScan *)

\* C13 as stated: when a venue quote is unavailable during the scan of a
\* pair, findArbitrageOpportunity returns none for that pair.
C13_UnavailableQuoteGivesNone ==
    (scan.pc = "returned" /\ scan.quoteUnavailable) => scan.result = Null

\* C13 amended: when the unavailable quotes leave no route with all its
\* quotes for any test amount, findArbitrageOpportunity returns none for the
\* pair; it always returns (none or an opportunity), and the scan then goes
\* on to the next pair of the cycle.
C13_NoCompleteRouteGivesNone ==
    [][ /\ (scan'.pc = "returned" /\ ~scan'.routeComplete) => scan'.result = Null
        /\ (scan.pc = "returned" /\ scan.pair < Len(supportedPairs) /\ scan' # scan)
              => (scan'.pc = "loop" /\ scan'.pair = scan.pair + 1) ]_vars

\* On the second pair of a cycle every quote was unavailable and none was
\* returned; the first pair had returned none too.
C13_Witness ==
    /\ scan.pc = "returned"
    /\ scan.pair = 2
    /\ scan.quoteUnavailable
    /\ ~scan.routeComplete
    /\ scan.result = Null

\* C17 as stated: the estimatedProfit of a returned opportunity is the final
\* amount of the round trip minus the amount put in, minus the gas estimate.
C17_ProfitNetOfGas ==
    (scan.pc = "returned" /\ scan.result # Null) =>
        scan.result.estimatedProfit =
            scan.finalAmount - scan.result.amount - calculateGasCosts(scan.gasPrice)

\* A start (a stop) is asked for, by a call of the method or by its route.
StartRequested == start \/ PostStart

StopRequested == stop \/ PostStop

C16_NoStartAfterFailedInit ==
    [][ boot = "failed" => /\ ~(~isRunning /\ isRunning')
                           /\ ~(timers.arbitrageScan = 0 /\ timers'.arbitrageScan > 0) ]_vars

\* The confidence floor of the scan, 0.7, in thousandths.
confidenceFloor == 700

\* The risk gate lets the opportunity of cycle c through: the risk manager is
\* not paused, each of its checks passes and the risk score is below 0.7.
RiskGatePasses(c) ==
    LET checks == riskChecks(riskState, riskParams, cycles[c].opportunity, now)
    IN  /\ ~riskState.isPaused
        /\ \A i \in DOMAIN checks : checks[i].passed
        /\ BelowApprovalThreshold(calculateRiskScore(checks))

\* Cycle c, holding an assessed opportunity, hands it to executeArbitrage or
\* drops it.
Decides(c) == cycles[c].pc = "assessed" /\ cycles'[c].pc # "assessed"

HandsOver(c) == cycles'[c].pc = "liquidity"

\* C15 as stated: an assessed opportunity is handed to execution if and only
\* if the risk manager is not paused, every check passes, the score is below
\* 0.7 and the signal's confidence is at least the floor, the floor included.
C15_HandedOverIffGateAndAtLeastFloor ==
    [][ \A c \in Cycles : Decides(c) =>
            ( HandsOver(c) <=> /\ RiskGatePasses(c)
                               /\ cycles[c].quantumSignal.confidence >= confidenceFloor )
      ]_vars

\* C15 amended: the same with a confidence strictly above the floor; a signal
\* whose confidence equals the floor is not handed to execution.
C15_HandedOverIffGateAndAboveFloor ==
    [][ \A c \in Cycles : Decides(c) =>
            ( HandsOver(c) <=> /\ RiskGatePasses(c)
                               /\ cycles[c].quantumSignal.confidence > confidenceFloor )
      ]_vars

\* C15 witness: an opportunity that the risk manager approved carries a
\* signal whose confidence is exactly the floor, and the scan is deciding.
C15_Witness ==
    \E c \in Cycles :
        /\ cycles[c].pc = "assessed"
        /\ cycles[c].riskAssessment.approved
        /\ RiskGatePasses(c)
        /\ cycles[c].quantumSignal.confidence = confidenceFloor

-----------------------------------------------------------------------------
(* The contract's claims, checked under SpecContract *)

\* The step mines a call of fn.
Calls(fn) == lastTx' # lastTx /\ lastTx'.fn = fn

\* The storage and the holdings are after the step what they were before it.
ContractStateUnchanged == flashBot' = flashBot /\ balances' = balances

\* C18: a call of executeArbitrage by a sender that is neither in
\* authorizedExecutors nor the owner reverts, requests no flash loan and
\* leaves the storage, lastExecutionTime included, and the holdings unchanged,
\* whatever the asset, the amount and the gas price; so a call that succeeds
\* comes from an authorized executor or the owner.
C18_OnlyAuthorizedExecute ==
    [][ ( /\ Calls("executeArbitrage")
          /\ lastTx'.sender \notin flashBot.authorizedExecutors
          /\ lastTx'.sender # flashBot.owner )
        => /\ lastTx'.status = "reverted"
           /\ ~lastTx'.loanRequested
           /\ ContractStateUnchanged ]_vars

\* C18 witness: after the executor was authorized and ran an arbitrage,
\* someone else called executeArbitrage and was refused; no execution time
\* is recorded for that sender.
C18_Witness ==
    /\ lastTx.fn = "executeArbitrage"
    /\ lastTx.status = "reverted"
    /\ lastTx.reason = "Unauthorized executor"
    /\ lastTx.sender = "user"
    /\ flashBot.lastExecutionTime["user"] = 0
    /\ flashBot.lastExecutionTime["executor"] > 0

AdminOperations ==
    { "addAuthorizedExecutor", "removeAuthorizedExecutor", "addSupportedAsset",
      "removeSupportedAsset", "setMEVProtection", "setMaxGasPrice", "setMaxDailyLoss",
      "pause", "unpause", "emergencyWithdraw", "emergencyWithdrawETH" }

\* C19: every administrative operation called by someone who is not the owner
\* reverts and leaves the storage and the holdings of the contract unchanged.
C19_AdminOnlyOwner ==
    [][ ( /\ lastTx' # lastTx
          /\ lastTx'.fn \in AdminOperations
          /\ lastTx'.sender # flashBot.owner )
        => /\ lastTx'.status = "reverted"
           /\ lastTx'.reason = "Ownable: caller is not the owner"
           /\ ContractStateUnchanged ]_vars

\* C19 witness: the contract holds ether, and an emergencyWithdrawETH sent by
\* someone who is not the owner was reverted: the ether is still there.
C19_Witness ==
    /\ lastTx.fn = "emergencyWithdrawETH"
    /\ lastTx.sender # flashBot.owner
    /\ lastTx.status = "reverted"
    /\ balances.eth = 1

\* The sender of the call mined by the step passes onlyAuthorizedExecutor.
ByAuthorizedExecutor ==
    \/ lastTx'.sender \in flashBot.authorizedExecutors
    \/ lastTx'.sender = flashBot.owner

\* What the claim says of the call mined by the step: the revert reason for
\* an unsupported asset and for a zero amount, and no flash loan.
RejectedForAssetOrAmount ==
    /\ lastTx'.args.asset \notin flashBot.supportedAssets
          => /\ lastTx'.status = "reverted"
             /\ lastTx'.reason = "Asset not supported"
             /\ ~lastTx'.loanRequested
    /\ (lastTx'.args.asset \in flashBot.supportedAssets /\ lastTx'.args.amount = 0)
          => /\ lastTx'.status = "reverted"
             /\ lastTx'.reason = "Invalid amount"
             /\ ~lastTx'.loanRequested

\* The modifiers that run before the body let the call through: gas price and
\* rate limit (when MEV protection is on), daily loss, pause.
ModifiersPass ==
    /\ mevProtection(flashBot, lastTx'.sender, lastTx'.args.gasprice, blockTimestamp) = ""
    /\ LET st == circuitBreaker(flashBot, blockTimestamp)
       IN  st.dailyLoss < st.maxDailyLoss
    /\ ~flashBot.paused

\* C20 as stated: every call of executeArbitrage by an authorized executor
\* reverts with "Asset not supported" when the asset is not supported and with
\* "Invalid amount" when it is and the amount is 0, without a flash loan.
C20_RejectsAssetAndAmount ==
    [][ (Calls("executeArbitrage") /\ ByAuthorizedExecutor)
        => RejectedForAssetOrAmount ]_vars

\* C20 amended: the same for the calls that the modifiers let through; and
\* whatever the modifiers say, a call with an unsupported asset or a zero
\* amount reverts and requests no flash loan.
C20_RejectsAssetAndAmountPastModifiers ==
    [][ (Calls("executeArbitrage") /\ ByAuthorizedExecutor)
        => /\ ModifiersPass => RejectedForAssetOrAmount
           /\ ( \/ lastTx'.args.asset \notin flashBot.supportedAssets
                \/ lastTx'.args.amount = 0 )
                 => /\ lastTx'.status = "reverted"
                    /\ ~lastTx'.loanRequested
                    /\ ContractStateUnchanged ]_vars

\* C20 witness: the authorized executor asked for a zero amount of a
\* supported asset and got "Invalid amount"; no execution time was recorded.
C20_Witness ==
    /\ lastTx.fn = "executeArbitrage"
    /\ lastTx.sender \in flashBot.authorizedExecutors
    /\ lastTx.args.asset \in flashBot.supportedAssets
    /\ lastTx.args.amount = 0
    /\ lastTx.reason = "Invalid amount"
    /\ ~lastTx.loanRequested
    /\ flashBot.lastExecutionTime[lastTx.sender] = 0

\* C21 as stated: as long as no transaction has been sent to the deployed
\* contract, so before any addSupportedAsset of the owner, WETH is not a
\* supported asset.
C21_WETHUnsupportedAtDeployment ==
    lastTx = NoTx => "WETH" \notin flashBot.supportedAssets

RECURSIVE SumAmounts(_)
SumAmounts(transfers) ==
    IF transfers = <<>> THEN 0
    ELSE Head(transfers).amount + SumAmounts(Tail(transfers))

\* C22: executeOperation completes only when the pool calls it with the
\* contract as initiator, the profit is at least minProfit and at least
\* MIN_PROFIT_THRESHOLD and the asset held covers amount + premium; it then
\* has approved exactly amount + premium to the pool and sent all the rest of
\* the asset it held, and only to profitWallet.
C22_OperationCompletesOnlyWhenRepayable ==
    operation.result.completed =>
        LET r       == operation.result
            balance == operation.held + operation.amount + operation.gain.value
        IN  /\ operation.caller = "pool"
            /\ operation.initiator = "flashBot"
            /\ operation.gain.value >= operation.minProfit
            /\ operation.gain.value >= MIN_PROFIT_THRESHOLD
            /\ balance >= operation.amount + operation.premium
            /\ r.approvedToPool = operation.amount + operation.premium
            /\ \A i \in DOMAIN r.transfers : r.transfers[i].to = "profitWallet"
            /\ SumAmounts(r.transfers) = balance - r.approvedToPool
            /\ r.balanceLeft = r.approvedToPool

\* C22 witness: a loan the contract asked for came back with a profit above
\* both floors and the premium; the debt is approved, the rest went to the
\* profit wallet.
C22_Witness ==
    /\ operation.result.completed
    /\ operation.held > 0
    /\ operation.result.transfers # <<>>
    /\ operation.result.transfers[1].amount > operation.held

\* C23 as stated: an execution attempt that follows an earlier one starts at
\* least cooldownPeriod after it. The earlier attempt was made no sooner than
\* StartTime, when the process started, so the later one starts at least
\* cooldownPeriod after StartTime.
C23_CooldownBetweenAttempts ==
    [][ (stats'.totalExecutions > stats.totalExecutions /\ stats.totalExecutions > 0)
        => now - StartTime >= riskParams.cooldownPeriod ]_vars


\* A step that is one recordTradeResult call: the call is the last one made
\* and the clock has not moved.
RecordTradeResultStep ==
    /\ lastCall'.op = "recordTradeResult"
    /\ now' = now /\ clockSteps' = clockSteps

\* C24 as stated: a recordTradeResult call made once the 24h window has
\* elapsed first resets the daily counters and then adds the outcome:
\* afterwards the window starts at the time of the call and the daily
\* counters hold the recorded outcome alone, so that the next assessRisk has
\* no reset left to perform.
C24_RecordResetsElapsedWindow ==
    [][ (WindowElapsed /\ RecordTradeResultStep) =>
            /\ riskState'.lastResetTime = now
            /\ riskState'.dailyLoss + riskState'.dailyProfit
                   = lastCall'.opp.estimatedProfit ]_vars


\* C25: every recordTradeResult call adds one to totalTrades and sets
\* lastTradeTime to the time of the call; a success adds one to
\* successfulTrades, zeroes consecutiveFailures and adds the trade's estimated
\* profit to dailyProfit, leaving dailyLoss alone; a failure adds one to
\* consecutiveFailures and the estimated profit to dailyLoss, leaving
\* dailyProfit and successfulTrades alone.
C25_RecordOutcomeCounters ==
    [][ RecordTradeResultStep =>
          LET amount == lastCall'.opp.estimatedProfit
          IN  /\ riskState'.totalTrades = riskState.totalTrades + 1
              /\ riskState'.lastTradeTime = now
              /\ lastCall'.result.success =>
                    /\ riskState'.successfulTrades = riskState.successfulTrades + 1
                    /\ riskState'.consecutiveFailures = 0
                    /\ riskState'.dailyProfit = riskState.dailyProfit + amount
                    /\ riskState'.dailyLoss = riskState.dailyLoss
              /\ ~lastCall'.result.success =>
                    /\ riskState'.consecutiveFailures = riskState.consecutiveFailures + 1
                    /\ riskState'.dailyLoss = riskState.dailyLoss + amount
                    /\ riskState'.dailyProfit = riskState.dailyProfit
                    /\ riskState'.successfulTrades = riskState.successfulTrades ]_vars

\* C25 witness: a failure has just been recorded after a success and another
\* failure: both daily counters and both trade counters are above zero.
C25_Witness ==
    /\ lastCall.op = "recordTradeResult"
    /\ ~lastCall.result.success
    /\ riskState.lastTradeTime = now
    /\ riskState.totalTrades = 3
    /\ riskState.successfulTrades = 1
    /\ riskState.consecutiveFailures = 1
    /\ riskState.dailyProfit > 0
    /\ riskState.dailyLoss > 0


\* The counters that recordTradeResult adds to.
Recorded(rs) == <<rs.totalTrades, rs.dailyLoss, rs.dailyProfit>>

\* C26: in any interleaving of recordTradeResult calls with assessRisk calls
\* (and the operator's pause, resume and parameter updates) no recorded
\* outcome is lost: each recordTradeResult call adds exactly one to
\* totalTrades and exactly the trade's amount to dailyLoss or dailyProfit, and
\* no other step changes the three counters, apart from a reset of the
\* elapsed 24h window and the forced resetRiskState.
C26_NoLostOutcome ==
    [][ /\ RecordTradeResultStep =>
              /\ riskState'.totalTrades = riskState.totalTrades + 1
              /\ riskState'.dailyLoss + riskState'.dailyProfit
                    = riskState.dailyLoss + riskState.dailyProfit
                        + lastCall'.opp.estimatedProfit
        /\ ( /\ ~RecordTradeResultStep
             /\ ~WindowElapsed
             /\ lastCall'.op # "resetRiskState" )
           => Recorded(riskState') = Recorded(riskState) ]_vars

\* C26 witness: an assessRisk call has returned after three outcomes were
\* recorded in the running window, two losses and one profit, and the
\* counters hold all three.
C26_Witness ==
    /\ lastCall.op = "assessRisk"
    /\ ~WindowElapsed
    /\ tradeHistorySize = 3
    /\ Recorded(riskState) = <<3, 2 * (Ether \div 2), Ether \div 2>>


\* The profit of what calculateArbitrageProfit returned, none counting as 0.
ProfitOf(opportunity) == IF opportunity = Null THEN 0 ELSE opportunity.profit

\* The profit of the best candidate less the gas estimate.
NetMaxProfit(sc) == sc.maxProfit - calculateGasCosts(sc.gasPrice)

\* C27 as stated: findArbitrageOpportunity evaluates every test amount,
\* keeps the greatest profit over the amounts and both routes, and returns
\* the candidate that has it exactly when that profit, net of the gas
\* estimate, exceeds the minimum-profit floor.
C27_MaxNetProfitAboveFloor ==
    [][ /\ (scan.pc = "loop" /\ scan'.pc = "loop") =>
              scan'.maxProfit = Max(scan.maxProfit, ProfitOf(scan'.opportunity))
        /\ (scan.pc = "loop" /\ scan'.pc = "returned") =>
              /\ scan.i = Len(testAmounts)
              /\ scan'.result # Null <=> NetMaxProfit(scan) > minProfitFloor
              /\ scan'.result # Null =>
                    /\ scan'.result.amount = scan.bestOpportunity.amount
                    /\ scan.bestOpportunity.profit = scan.maxProfit ]_vars


\* A test amount has just been evaluated after a smaller one had given the
\* best candidate so far.
LaterSizeEvaluated ==
    /\ scan.pc = "loop" /\ scan'.pc = "loop"
    /\ scan.bestOpportunity # Null
    /\ scan'.opportunity # Null

\* C28 as stated: when the candidate of a test amount has a profit within
\* epsilon of the best profit of the smaller amounts, the smaller amount's
\* candidate is kept. The code configures no epsilon; the formula takes the
\* least positive one, one unit of profit.
C28_SmallerSizeWithinEpsilon ==
    [][ ( /\ LaterSizeEvaluated
          /\ scan'.opportunity.profit - scan.maxProfit <= 1
          /\ scan.maxProfit - scan'.opportunity.profit <= 1 )
        => scan'.bestOpportunity = scan.bestOpportunity ]_vars

\* C28 amended: when the candidate of a test amount has the same profit as
\* the best of the smaller amounts, the smaller amount's candidate is kept.
C28_SmallerSizeOnEqualProfit ==
    [][ (LaterSizeEvaluated /\ scan'.opportunity.profit = scan.maxProfit)
        => /\ scan'.bestOpportunity = scan.bestOpportunity
           /\ scan'.bestOpportunity.amount < scan'.opportunity.amount ]_vars

\* C28 witness: the second test amount brought the same profit as the first,
\* and the candidate kept is the one of the first amount.
C28_Witness ==
    /\ scan.pc = "loop"
    /\ scan.i = 2
    /\ scan.opportunity # Null
    /\ scan.opportunity.amount = testAmounts[2]
    /\ scan.opportunity.profit = scan.maxProfit
    /\ scan.bestOpportunity.amount = testAmounts[1]


\* The sum of the weights of the checks whose index is in S.
RECURSIVE WeightOver(_, _)
WeightOver(checks, S) ==
    IF S = {} THEN 0
    ELSE LET i == CHOOSE j \in S : TRUE
         IN  checks[i].weight + WeightOver(checks, S \ {i})

\* C29: the risk score of a list of checks is the sum of the weights of the
\* failed checks over the sum of all weights; it lies in [0, 1] and is 0
\* exactly when every check passed. An assessRisk call on a paused gate, or
\* one that throws, returns riskScore 1.0 and approved = false.
C29_RiskScoreWeightedFailures ==
    /\ assessment.op = "calculateRiskScore" =>
          LET checks == assessment.checks
              failed == { i \in DOMAIN checks : ~checks[i].passed }
              score  == assessment.riskScore
          IN  /\ score[2] = WeightOver(checks, DOMAIN checks)
              /\ score[1] = WeightOver(checks, failed)
              /\ score[2] > 0
              /\ 0 <= score[1] /\ score[1] <= score[2]
              /\ score[1] = 0 <=> failed = {}
    /\ ( /\ assessment.op = "assessRisk"
         /\ assessment.gate.isPaused \/ assessment.opp = NoOpp )
       => /\ assessment.result.riskScore[1] = assessment.result.riskScore[2]
          /\ assessment.result.riskScore[2] > 0
          /\ assessment.result.approved = FALSE

\* C29 witness: the profit check (weight 20) and the cooldown check
\* (weight 5) failed and the other eight passed: the score is 25/155.
C29_Witness ==
    /\ assessment.op = "calculateRiskScore"
    /\ { i \in 1 .. 10 : ~assessment.checks[i].passed } = {1, 7}
    /\ assessment.riskScore = <<25, 155>>


\* An executeBundle call is under way.
BundleInFlight == bundleRun.pc \notin {"idle", "returned"}

\* C30: every executeBundle call returns a result, a success or a failure
\* with its error, whatever the provider and the relay answer; a block that
\* does not arrive ends the wait with a failure once the timeout of
\* waitForBlock has passed.
C30_ExecuteBundleReturns ==
    BundleInFlight ~> ( /\ bundleRun.pc = "returned"
                        /\ bundleRun.result # Null
                        /\ bundleRun.result.success \in BOOLEAN
                        /\ ~bundleRun.result.success => bundleRun.result.error # Null )

\* C30 witness: the target block had not arrived when the timeout of
\* waitForBlock had passed, and executeBundle returned the failure of the wait.
C30_Witness ==
    /\ bundleRun.pc = "returned"
    /\ bundleRun.blockWaits = 1
    /\ bundleRun.result.success = FALSE
    /\ bundleRun.result.error = BlockTimeout


\* The last answer of getBundleStats reported the bundle mined.
LastPollMined(run) == run.polls # <<>> /\ run.polls[Len(run.polls)].isMined

\* C31: waitForBundleInclusion asks for the status at most maxWaitBlocks
\* times, for the target block and the blocks after it in increasing order;
\* the first answer that reports the bundle mined ends the wait with success,
\* no status being asked for after it, and bundleStats.included goes up by
\* one at that answer and at no other step.
C31_InclusionWaitBounded ==
    [][ /\ Len(bundleRun'.polls) <= maxWaitBlocks
        /\ \A k \in DOMAIN bundleRun'.polls :
              /\ bundleRun'.polls[k].block = k - 1
              /\ k < Len(bundleRun'.polls) => ~bundleRun'.polls[k].isMined
        /\ (bundleRun'.polls # bundleRun.polls /\ LastPollMined(bundleRun')) =>
              /\ bundleRun'.pc = "returned"
              /\ bundleRun'.result.success
              /\ bundleStats'.included = bundleStats.included + 1
        /\ bundleStats'.included # bundleStats.included =>
              /\ bundleRun'.polls # bundleRun.polls
              /\ LastPollMined(bundleRun') ]_vars

\* C31 witness: the relay reported the bundle mined for the second block
\* asked about, after a first answer that did not; executeBundle returned
\* success after two polls.
C31_Witness ==
    /\ bundleRun.pc = "returned"
    /\ bundleRun.result.success
    /\ Len(bundleRun.polls) = 2
    /\ ~bundleRun.polls[1].isMined
    /\ bundleRun.polls[2].isMined
    /\ bundleStats.included = 1


\* The scan of tick c leaves its pair: findArbitrageOpportunity returned
\* nothing (its own catch block returns null), or executeArbitrage returned,
\* having caught what getAvailableLiquidity or a later call threw.
LeavesPair(c) ==
    /\ cycles[c].pc \in {"find", "liquidity", "bundle"}
    /\ cycles'[c] # cycles[c]
    /\ cycles'[c].pc \in {"find", "done"}

\* executeArbitrage of tick c caught an error before it reached executeBundle.
ExecutionThrew(c) ==
    /\ cycles[c].pc = "liquidity"
    /\ cycles'[c] # cycles[c]
    /\ cycles'[c].pc # "bundle"

\* C32: an error while scanning or executing for a pair does not stop the
\* loop: the scan goes on with the next pair, or is over after the last one;
\* isRunning and the timers are as they were, so later ticks still fire, and
\* the process lives on.
C32_ErrorDoesNotStopLoop ==
    [][ \A c \in Cycles :
          /\ ExecutionThrew(c) => LeavesPair(c)
          /\ LeavesPair(c) =>
                /\ IF cycles[c].pair < Len(supportedPairs)
                   THEN /\ cycles'[c].pc = "find"
                        /\ cycles'[c].pair = cycles[c].pair + 1
                   ELSE cycles'[c].pc = "done"
                /\ isRunning' = isRunning
                /\ timers' = timers
                /\ boot' = boot ]_vars

\* C32 witness: the execution for the first pair ended without a success and
\* the scan of the tick is on the second pair, the bot still running with
\* its scan timer set.
C32_Witness ==
    /\ isRunning
    /\ timers.arbitrageScan = 1
    /\ stats.totalExecutions = 1
    /\ stats.successfulExecutions = 0
    /\ cycles[1].pc = "find"
    /\ cycles[1].pair = 2
    /\ cycles[2].pc = "idle"


\* C33 as stated: while the bot is stopped no execution is begun: every step
\* in which executeArbitrage is called is taken with isRunning true, also in
\* a scan that was under way when stop() was called.
C33_NoExecutionOnceStopped ==
    [][ stats'.totalExecutions > stats.totalExecutions => isRunning ]_vars


\* The scans under way: ticks whose scan has begun and is not over.
ScansUnderWay == { c \in Cycles : cycles[c].pc \notin {"idle", "done"} }

\* C34 as stated: the executions in flight at one time stay under a maximum
\* that does not grow with the number of overlapping scan ticks: when several
\* scans overlap, not every one of them has an execution in flight.
C34_InFlightBelowOverlap ==
    Cardinality(ScansUnderWay) > 1 =>
        Cardinality({ c \in Cycles : InFlight(c) }) < Cardinality(ScansUnderWay)


\* C35: the amount of the transaction executeArbitrage builds is the lesser
\* of the opportunity's amount and 90% (rounded down) of the liquidity read
\* just before, so it passes the contract's own test,
\* amount <= availableLiquidity * 90 / 100, for that liquidity.
C35_AmountWithinLiquidityShare ==
    \A c \in Cycles :
        cycles[c].pc = "bundle" =>
            LET amount    == cycles[c].optimalAmount
                liquidity == cycles[c].availableLiquidity
                share     == (liquidity * 90) \div 100
            IN  /\ amount = Min(cycles[c].opportunity.amount, share)
                /\ amount <= share
                /\ amount * 100 <= liquidity * 90

\* C35 witness: the pool held 1 ETH, less than the 1 ETH opportunity needs
\* with the 90% ceiling: the transaction asks for 0.9 ETH.
C35_Witness ==
    \E c \in Cycles :
        /\ cycles[c].pc = "bundle"
        /\ cycles[c].availableLiquidity = Ether
        /\ cycles[c].opportunity.amount = Ether
        /\ cycles[c].optimalAmount = (Ether * 9) \div 10


\* C36: after any sequence of addToHistory calls a price series holds at
\* most 1000 entries, and they are the entries appended last, in the order
\* they were appended: with n entries ever appended to the series, it holds
\* entries n - Len + 1 .. n, and all n of them while n <= 1000.
C36_SeriesBoundedNewestKept ==
    \A token \in PriceTokens :
        LET history == priceHistory[token]
            n       == historyLog.appended[token]
        IN  /\ Len(history) <= maxPriceHistory
            /\ Len(history) = Min(n, maxPriceHistory)
            /\ \A i \in DOMAIN history : history[i].serial = n - Len(history) + i
            /\ (historyLog.last.token = token /\ history # <<>>) =>
                   history[Len(history)].price = historyLog.last.price

\* C36 witness: two entries were appended to a full WETH series: the two
\* oldest entries are gone and the series still holds 1000.
C36_Witness ==
    /\ historyLog.appended["WETH"] = maxPriceHistory + 2
    /\ Len(priceHistory["WETH"]) = maxPriceHistory
    /\ priceHistory["WETH"][1].serial = 3
    /\ priceHistory["WETH"][maxPriceHistory].serial = maxPriceHistory + 2


\* C37: the timestamps of a price series are strictly increasing: an entry
\* is appended only when its observation is strictly newer than the last
\* entry of the series, so no two neighbouring entries carry the same or a
\* falling timestamp.
C37_TimestampsStrictlyIncreasing ==
    \A token \in PriceTokens :
        LET history == priceHistory[token]
        IN  \A i \in 1 .. Len(history) - 1 :
                history[i].timestamp < history[i + 1].timestamp


\* The three cron-scheduled activities (daily report, hourly health check,
\* model update): each cron.schedule call leaves one task per activity.
CronActivities == 3

\* C38: after any sequence of start() and stop() calls every periodic
\* activity has at most one active schedule while the bot runs and none while
\* it is stopped: the three intervals, and the three cron-scheduled tasks.
C38_OneScheduleEachNoneWhenStopped ==
    /\ \A k \in DOMAIN timers : timers[k] <= (IF isRunning THEN 1 ELSE 0)
    /\ cronTasks <= (IF isRunning THEN CronActivities ELSE 0)

\* The part of C38 about the three intervals alone.
C38_IntervalsOneEachNoneWhenStopped ==
    \A k \in DOMAIN timers : timers[k] = (IF isRunning THEN 1 ELSE 0)


\* A step that is a resumeSystem call.
ResumeSystemStep ==
    lastCall'.op = "resumeSystem" /\ now' = now /\ clockSteps' = clockSteps

\* The breaker's state agrees with the failure count.
PausedAtFailureLimit(rs, p) ==
    rs.consecutiveFailures >= p.maxConsecutiveFailures => rs.isPaused

\* C39: with the risk parameters fixed, in every state reached by
\* recordTradeResult, pauseSystem, resumeSystem, resetRiskState and assessRisk
\* calls, consecutiveFailures >= maxConsecutiveFailures implies isPaused; and
\* every resumeSystem call leaves isPaused false, pauseReason null and
\* consecutiveFailures 0, and leaves dailyLoss, dailyProfit, totalTrades and
\* successfulTrades as they were.
C39_PausedAtLimitResumeClears ==
    /\ PausedAtFailureLimit(riskState, riskParams)
    /\ [][ /\ riskParams' = riskParams
           /\ PausedAtFailureLimit(riskState', riskParams')
           /\ ResumeSystemStep =>
                 /\ ~riskState'.isPaused
                 /\ riskState'.pauseReason = Null
                 /\ riskState'.consecutiveFailures = 0
                 /\ riskState'.dailyLoss = riskState.dailyLoss
                 /\ riskState'.dailyProfit = riskState.dailyProfit
                 /\ riskState'.totalTrades = riskState.totalTrades
                 /\ riskState'.successfulTrades = riskState.successfulTrades
       ]_vars

\* C39 witness: resumeSystem was called after maxConsecutiveFailures failed
\* trades: the failures are cleared, the trades and the loss are still
\* counted.
C39_Witness ==
    /\ lastCall.op = "resumeSystem"
    /\ ~riskState.isPaused
    /\ riskState.consecutiveFailures = 0
    /\ riskState.totalTrades = riskParams.maxConsecutiveFailures
    /\ riskState.successfulTrades = 0
    /\ riskState.dailyLoss > 0


\* C40: in every reachable state, overlapping executions included,
\* successfulExecutions <= totalExecutions; and totalProfit changes only
\* together with one more successful execution, by the estimatedProfit of an
\* execution that was waiting for its bundle, and never decreases.
C40_SuccessesWithinTotalProfitBySuccess ==
    /\ stats.successfulExecutions <= stats.totalExecutions
    /\ [][ /\ stats'.successfulExecutions <= stats'.totalExecutions
           /\ stats'.totalProfit >= stats.totalProfit
           /\ stats'.totalProfit # stats.totalProfit =>
                 /\ stats'.successfulExecutions = stats.successfulExecutions + 1
                 /\ \E c \in Cycles :
                       /\ cycles[c].pc = "bundle"
                       /\ cycles'[c].pc # "bundle"
                       /\ stats'.totalProfit =
                              stats.totalProfit + cycles[c].opportunity.estimatedProfit
           /\ stats'.successfulExecutions # stats.successfulExecutions =>
                 stats'.totalProfit > stats.totalProfit
       ]_vars

\* C40 witness: two executions were made, both succeeded and both returned.
C40_Witness ==
    /\ stats.totalExecutions = 2
    /\ stats.successfulExecutions = 2
    /\ stats.totalProfit > 0
    /\ \A c \in Cycles : cycles[c].pc # "bundle"

=============================================================================
